---- MODULE Spec2Model ----
(***************************************************************************)
(* Model of the mcp-ai-memory memory engine: the memories and              *)
(* memory_relations tables, the two-tier cache, and the handlers of        *)
(* MemoryService, DecayService, TraversalService and ClusteringService     *)
(* that read and write them.  Every database statement is one atomic step; *)
(* a handler that awaits between statements is a sequence of steps.        *)
(*                                                                         *)
(* Scores (decay_score, importance_score, confidence, strength) are fixed  *)
(* point, in thousandths.  Time is counted in ticks of TickDays days.      *)
(***************************************************************************)
EXTENDS Integers, Sequences, FiniteSets, TLC

\* ---------------------------------------------------------------- bounds
MaxMem == 3
NumProcs == 2
MaxAccess == 2
MaxTime == 2
MaxRel == 2
MaxClock == 2

\* ------------------------------------------------------------- constants
NULL == 0 - 1
TickDays == 100

MemIds == 1..MaxMem

\* decay worker: concurrency: config.DECAY_WORKER_CONCURRENCY || 2
DecayConcurrency == 2
DecayWorkers == 1..DecayConcurrency
IdleDecay == [pc |-> "idle"]
IdleCleanup == [pc |-> "idle", run |-> 0]
Procs == 1..NumProcs
RelIds == 1..MaxRel

\* request values of user_context: "" stands for an absent (falsy) field
UserInputs == {"", "u1"}
Contents == {"x", "y"}

\* input.user_context || 'default'
EffectiveContext(u) == IF u = "" THEN "default" ELSE u

\* EmbeddingService.generateContentHash: SHA-256 of the content string
\* (collision free on the contents of the model)
generateContentHash(c) == <<"sha256", c>>

VARIABLES
  memories,     \* table memories: id -> row, for the rows that exist
  nextId,       \* ids handed out so far + 1 (gen_random_uuid never repeats)
  relations,    \* table memory_relations: id -> row
  nextRelId,
  searchCache,  \* cache namespace 'search': cache key -> cached result (set of ids)
  memoryCache,  \* cache namespace 'memory': the ids with an entry
  now,          \* the clock, in ticks
  storeReq,     \* per request slot: the store() call in flight
  lastStore,    \* the store() call a sequential client completed last
  relReq,       \* per request slot: the createRelation() call in flight
  lastRel,      \* the createRelation() call a sequential client completed last
  decayReq,     \* per decay worker slot: the processBatch() job in flight
  cleanupReq,   \* the cleanupExpiredMemories() call in flight
  redisKeys,    \* the Redis tier of the cache: the <<namespace, identifier>> keys it holds
  isRedisAvailable, \* CacheService.isRedisAvailable
  travReq,      \* the traverse() call in flight
  burst,        \* a client's burst of traverse calls: issued, resolved, rejected
  workerPool, \* the worker process: its workers and the Redis connection they share
  batchReq, \* the batchStore() call or batch-import job in flight
  mergeReq, \* the merge consolidation job in flight
  scheduler, \* the decay worker's repeatable jobs
  clusterJobs, \* the clustering queue (BullMQ 'clustering')
  windowStates, \* the context window of user 'default' (ContextWindowService.windowStates)
  windowReq, \* addToWindow calls in progress
  modelService, \* EmbeddingService: model, modelLoading and the getModel calls in progress
  embedJobs,    \* queue 'embedding-generation': memoryId -> the job added for it
  out           \* the result of the last completed query or worker pass

vars == <<memories, nextId, relations, nextRelId, searchCache, memoryCache, now,
          storeReq, lastStore, relReq, lastRel, decayReq, cleanupReq, out,
          embedJobs, redisKeys, isRedisAvailable, travReq, burst,
          workerPool,
          batchReq,
          mergeReq,
          scheduler,
          clusterJobs,
          windowStates,
          windowReq,
          modelService>>

\* ------------------------------------------------------------ the tables
Live(id) == id \in DOMAIN memories /\ memories[id].deleted_at = NULL

\* row as inserted by MemoryService.store plus the column defaults of the
\* migrations (state 'active', decay_score 1.0, last_decay_update now)
RowAt(t, ctx, hash, emb, tags) ==
  [ user_context      |-> ctx,
    content_hash      |-> hash,
    embedding         |-> emb,
    tags              |-> tags,
    deleted_at        |-> NULL,
    access_count      |-> 0,
    accessed_at       |-> NULL,
    created_at        |-> t,
    importance_score  |-> 500,
    confidence        |-> 900,
    state             |-> "active",
    decay_score       |-> 1000,
    last_decay_update |-> t,
    preservedUntil    |-> NULL,
    archived          |-> FALSE,
    cluster_id        |-> NULL,
    embedding_dimension |-> NULL,
    embeddingError    |-> FALSE,
    is_compressed     |-> FALSE,
    transitions       |-> <<>> ]

NewRow(ctx, hash, emb, tags) == RowAt(now, ctx, hash, emb, tags)

\* idx_memories_user_context_content_hash: unique on (user_context,
\* content_hash), over every row of the table (the index has no WHERE)
UniqueViolationNone(ctx, hash) == FALSE

UniqueViolation(ctx, hash) ==
  \E id \in DOMAIN memories :
     /\ memories[id].user_context = ctx
     /\ memories[id].content_hash = hash

\* SET access_count = access_count + 1, accessed_at = now
BumpAccessOnlyTime(row) == [row EXCEPT !.accessed_at = now]

BumpAccess(row) == [row EXCEPT !.access_count = @ + 1, !.accessed_at = now]

\* --------------------------------------------------------------- cache
\* CacheService.invalidateMemory: delete('memory', id); clearNamespace('search')
NoSearchCache == [k \in {} |-> {}]

IdleStore == [pc |-> "idle"]
NoStore == [op |-> "none"]
NoOut == [op |-> "none"]

IdleTrav == [pc |-> "idle"]

\* the burst of the test "rate limiting should prevent excessive requests"
BurstRequests == 110

NoBurst == [issued |-> 0, resolved |-> 0, rejected |-> 0]

\* ------------------------------------------------- MemoryService.store
\* first statement: look the content hash up among the non-deleted rows
StoreSelect(p, u, c, sync) ==
  /\ storeReq[p].pc = "idle"
  /\ LET ctx == EffectiveContext(u)
         hash == generateContentHash(c)
         found == {id \in DOMAIN memories :
                     /\ memories[id].content_hash = hash
                     /\ memories[id].user_context = ctx
                     /\ memories[id].deleted_at = NULL}
     IN \E e \in (IF found = {} THEN {NULL} ELSE found) :
          storeReq' = [storeReq EXCEPT ![p] =
             [pc |-> "selected", user_context |-> ctx, content_hash |-> hash,
              sync |-> sync, existing |-> e]]
  /\ UNCHANGED <<memories, nextId, relations, nextRelId, searchCache,
                 memoryCache, now, lastStore, relReq, lastRel, out,
                 decayReq, cleanupReq, embedJobs, redisKeys, isRedisAvailable, travReq, burst, workerPool, batchReq, mergeReq, scheduler, clusterJobs, windowStates, windowReq, modelService>>

\* dedup hit: bump access_count and accessed_at, invalidate, re-read the row
StoreHit(p) ==
  /\ storeReq[p].pc = "selected"
  /\ storeReq[p].existing # NULL
  /\ LET id == storeReq[p].existing IN
     IF id \in DOMAIN memories
     THEN /\ memories[id].access_count < MaxAccess
          /\ memories' = [memories EXCEPT ![id] = BumpAccess(@)]
          /\ storeReq' = [storeReq EXCEPT ![p] =
                [pc |-> "done", user_context |-> storeReq[p].user_context,
                 content_hash |-> storeReq[p].content_hash, hit |-> TRUE,
                 id |-> id, access_count |-> memories'[id].access_count]]
     ELSE \* executeTakeFirstOrThrow on a row that is gone
          /\ memories' = memories
          /\ storeReq' = [storeReq EXCEPT ![p] =
                [pc |-> "failed", user_context |-> storeReq[p].user_context,
                 content_hash |-> storeReq[p].content_hash]]
  /\ memoryCache' = memoryCache \ {storeReq[p].existing}
  /\ searchCache' = NoSearchCache
  /\ UNCHANGED <<nextId, relations, nextRelId, now, lastStore, relReq, lastRel, out,
                 decayReq, cleanupReq, embedJobs, redisKeys, isRedisAvailable, travReq, burst, workerPool, batchReq, mergeReq, scheduler, clusterJobs, windowStates, windowReq, modelService>>

\* miss: insert the row; the unique index rejects a second row of the pair.
\* A synchronous store has its embedding and goes on to the cache calls in
\* the same step; an asynchronous one has still to add its embedding job.
StoreInsert(p) ==
  /\ storeReq[p].pc = "selected"
  /\ storeReq[p].existing = NULL
  /\ LET ctx == storeReq[p].user_context
         hash == storeReq[p].content_hash
     IN IF UniqueViolation(ctx, hash)
        THEN /\ storeReq' = [storeReq EXCEPT ![p] =
                  [pc |-> "failed", user_context |-> ctx, content_hash |-> hash]]
             /\ UNCHANGED <<memories, nextId, searchCache, memoryCache>>
        ELSE /\ nextId <= MaxMem
             /\ memories' = memories @@
                  (nextId :> NewRow(ctx, hash, storeReq[p].sync, {}))
             /\ nextId' = nextId + 1
             /\ IF storeReq[p].sync
                THEN /\ memoryCache' = memoryCache \cup {nextId}
                     /\ searchCache' = NoSearchCache
                     /\ storeReq' = [storeReq EXCEPT ![p] =
                          [pc |-> "done", user_context |-> ctx,
                           content_hash |-> hash, hit |-> FALSE, id |-> nextId,
                           access_count |-> 0, sync |-> TRUE]]
                ELSE /\ UNCHANGED <<memoryCache, searchCache>>
                     /\ storeReq' = [storeReq EXCEPT ![p] =
                          [pc |-> "inserted", user_context |-> ctx,
                           content_hash |-> hash, id |-> nextId]]
  /\ UNCHANGED <<relations, nextRelId, now, lastStore, relReq, lastRel, out,
                 decayReq, cleanupReq, embedJobs, redisKeys, isRedisAvailable, travReq, burst, workerPool, batchReq, mergeReq, scheduler, clusterJobs, windowStates, windowReq, modelService>>

\* the data of an embedding job: { content, memoryId, priority }
EmbeddingJobNoId(memoryId) ==
  [memoryId |-> NULL, pc |-> "waiting", attemptsMade |-> 0, error |-> "none",
   routed |-> "none"]

EmbeddingJob(memoryId) ==
  [memoryId |-> memoryId, pc |-> "waiting", attemptsMade |-> 0, error |-> "none",
   routed |-> "none"]

NoJobs == [j \in {} |-> NULL]

\* QueueService.addEmbeddingJob: the queue hands out the next job id
addEmbeddingJob(memoryId) ==
  embedJobs @@ ((Cardinality(DOMAIN embedJobs) + 1) :> EmbeddingJob(memoryId))

\* asynchronous store, after the INSERT: add the embedding job of the new
\* row, then cache the memory and clear the search namespace
StoreEnqueue(p) ==
  /\ storeReq[p].pc = "inserted"
  /\ embedJobs' = addEmbeddingJob(storeReq[p].id)
  /\ memoryCache' = memoryCache \cup {storeReq[p].id}
  /\ searchCache' = NoSearchCache
  /\ storeReq' = [storeReq EXCEPT ![p] =
        [pc |-> "done", user_context |-> storeReq[p].user_context,
         content_hash |-> storeReq[p].content_hash, hit |-> FALSE,
         id |-> storeReq[p].id, access_count |-> 0, sync |-> FALSE]]
  /\ UNCHANGED <<memories, nextId, relations, nextRelId, now, lastStore, relReq,
                 lastRel, out, decayReq, cleanupReq, redisKeys,
                 isRedisAvailable, travReq, burst, workerPool, batchReq, mergeReq, scheduler, clusterJobs, windowStates, windowReq, modelService>>

\* a sequential client (tests: "should detect duplicate content") takes the
\* result of its call and goes on to the next one
StoreReturn(p) ==
  /\ storeReq[p].pc \in {"done", "failed"}
  /\ lastStore' =
        IF storeReq[p].pc = "done"
        THEN [op |-> "store", user_context |-> storeReq[p].user_context,
              content_hash |-> storeReq[p].content_hash,
              id |-> storeReq[p].id, access_count |-> storeReq[p].access_count]
        ELSE NoStore
  /\ storeReq' = [storeReq EXCEPT ![p] = IdleStore]
  /\ UNCHANGED <<memories, nextId, relations, nextRelId, searchCache,
                 memoryCache, now, relReq, lastRel, out,
                 decayReq, cleanupReq, embedJobs, redisKeys, isRedisAvailable, travReq, burst, workerPool, batchReq, mergeReq, scheduler, clusterJobs, windowStates, windowReq, modelService>>

\* ------------------------------------------------ MemoryService.delete
\* soft delete by id: one UPDATE, then invalidateMemory when a row changed
DeleteById(id) ==
  /\ id \in MemIds
  /\ IF Live(id)
     THEN /\ memories' = [memories EXCEPT ![id].deleted_at = now]
          /\ memoryCache' = memoryCache \ {id}
          /\ searchCache' = NoSearchCache
     ELSE UNCHANGED <<memories, memoryCache, searchCache>>
  /\ UNCHANGED <<nextId, relations, nextRelId, now, storeReq, lastStore, relReq, lastRel, out,
                 decayReq, cleanupReq, embedJobs, redisKeys, isRedisAvailable, travReq, burst, workerPool, batchReq, mergeReq, scheduler, clusterJobs, windowStates, windowReq, modelService>>

\* soft delete by content_hash: the UPDATE has no user_context predicate,
\* and the cache is invalidated only when input.id is given
DeleteByHash(c) ==
  /\ LET hash == generateContentHash(c)
         hit == {id \in DOMAIN memories :
                   memories[id].deleted_at = NULL /\ memories[id].content_hash = hash}
     IN memories' = [id \in DOMAIN memories |->
                       IF id \in hit THEN [memories[id] EXCEPT !.deleted_at = now]
                       ELSE memories[id]]
  /\ UNCHANGED <<nextId, relations, nextRelId, searchCache, memoryCache, now,
                 storeReq, lastStore, relReq, lastRel, out,
                 decayReq, cleanupReq, embedJobs, redisKeys, isRedisAvailable, travReq, burst, workerPool, batchReq, mergeReq, scheduler, clusterJobs, windowStates, windowReq, modelService>>

\* MemoryService.batchDelete(ids)
BatchDelete(ids) ==
  /\ ids # {}
  /\ LET hit == {id \in ids : Live(id)} IN
       /\ memories' = [id \in DOMAIN memories |->
                         IF id \in hit THEN [memories[id] EXCEPT !.deleted_at = now]
                         ELSE memories[id]]
       /\ IF hit # {}
          THEN /\ memoryCache' = memoryCache \ ids
               /\ searchCache' = NoSearchCache
          ELSE UNCHANGED <<memoryCache, searchCache>>
  /\ UNCHANGED <<nextId, relations, nextRelId, now, storeReq, lastStore, relReq, lastRel, out,
                 decayReq, cleanupReq, embedJobs, redisKeys, isRedisAvailable, travReq, burst, workerPool, batchReq, mergeReq, scheduler, clusterJobs, windowStates, windowReq, modelService>>

\* MemoryService.archiveMemories(ids): the UPDATE has no deleted_at predicate
ArchiveMemories(ids) ==
  /\ ids # {}
  /\ memories' = [id \in DOMAIN memories |->
                    IF id \in ids
                    THEN [memories[id] EXCEPT !.deleted_at = now, !.archived = TRUE]
                    ELSE memories[id]]
  /\ memoryCache' = memoryCache \ ids
  /\ searchCache' = NoSearchCache
  /\ UNCHANGED <<nextId, relations, nextRelId, now, storeReq, lastStore, relReq, lastRel, out,
                 decayReq, cleanupReq, embedJobs, redisKeys, isRedisAvailable, travReq, burst, workerPool, batchReq, mergeReq, scheduler, clusterJobs, windowStates, windowReq, modelService>>

\* ---------------------------------------- MemoryService.createRelation
RelationTypes == {"references", "supports"}
Strengths == {500, 900}

IdleRel == [pc |-> "idle"]
NoRel == [op |-> "none"]

\* Math.max(0, Math.min(1, strength))
Clamp(x) == IF x < 0 THEN 0 ELSE IF x > 1000 THEN 1000 ELSE x

EdgesOf(from, to) ==
  {r \in DOMAIN relations :
     relations[r].from_memory_id = from /\ relations[r].to_memory_id = to}

\* constraint unique_memory_pair UNIQUE (from_memory_id, to_memory_id)
PairViolationNone(from, to) == FALSE

PairViolation(from, to) == EdgesOf(from, to) # {}

\* .set({ relation_type, strength: Math.max(0, Math.min(1, strength)) })
UpdatedEdgeStrengthOnly(row, type, strength) ==
  [row EXCEPT !.strength = Clamp(strength)]

UpdatedEdge(row, type, strength) ==
  [row EXCEPT !.relation_type = type, !.strength = Clamp(strength)]

RelFailed(p) ==
  [pc |-> "failed", from |-> relReq[p].from, to |-> relReq[p].to]

\* both endpoints must exist and be non-deleted
RelValidate(p, from, to, type, strength) ==
  /\ relReq[p].pc = "idle"
  /\ relReq' = [relReq EXCEPT ![p] =
       IF Live(from) /\ Live(to)
       THEN [pc |-> "validated", from |-> from, to |-> to,
             relation_type |-> type, strength |-> strength]
       ELSE [pc |-> "failed", from |-> from, to |-> to]]
  /\ UNCHANGED <<memories, nextId, relations, nextRelId, searchCache,
                 memoryCache, now, storeReq, lastStore, lastRel, out,
                 decayReq, cleanupReq, embedJobs, redisKeys, isRedisAvailable, travReq, burst, workerPool, batchReq, mergeReq, scheduler, clusterJobs, windowStates, windowReq, modelService>>

\* "Check if relationship already exists"
RelSelectExisting(p) ==
  /\ relReq[p].pc = "validated"
  /\ LET found == EdgesOf(relReq[p].from, relReq[p].to) IN
     \E e \in (IF found = {} THEN {NULL} ELSE found) :
        relReq' = [relReq EXCEPT ![p] =
           [pc |-> "checked", from |-> relReq[p].from, to |-> relReq[p].to,
            relation_type |-> relReq[p].relation_type,
            strength |-> relReq[p].strength, existing |-> e]]
  /\ UNCHANGED <<memories, nextId, relations, nextRelId, searchCache,
                 memoryCache, now, storeReq, lastStore, lastRel, out,
                 decayReq, cleanupReq, embedJobs, redisKeys, isRedisAvailable, travReq, burst, workerPool, batchReq, mergeReq, scheduler, clusterJobs, windowStates, windowReq, modelService>>

\* existing edge: UPDATE ... WHERE id = existing.id, executeTakeFirstOrThrow
RelUpdate(p) ==
  /\ relReq[p].pc = "checked"
  /\ relReq[p].existing # NULL
  /\ LET e == relReq[p].existing IN
     IF e \in DOMAIN relations
     THEN /\ relations' = [relations EXCEPT
                ![e] = UpdatedEdge(relations[e], relReq[p].relation_type,
                                   relReq[p].strength)]
          /\ relReq' = [relReq EXCEPT ![p] =
                [pc |-> "done", from |-> relReq[p].from, to |-> relReq[p].to,
                 relation_type |-> relReq[p].relation_type,
                 strength |-> Clamp(relReq[p].strength), id |-> e]]
          /\ memoryCache' = memoryCache \ {relReq[p].from, relReq[p].to}
          /\ searchCache' = NoSearchCache
     ELSE /\ relReq' = [relReq EXCEPT ![p] = RelFailed(p)]
          /\ UNCHANGED <<relations, memoryCache, searchCache>>
  /\ UNCHANGED <<memories, nextId, nextRelId, now, storeReq, lastStore,
                 lastRel, out,
                 decayReq, cleanupReq, embedJobs, redisKeys, isRedisAvailable, travReq, burst, workerPool, batchReq, mergeReq, scheduler, clusterJobs, windowStates, windowReq, modelService>>

\* no edge seen: INSERT; the unique constraint and the foreign keys on both
\* endpoints can reject it
RelInsert(p) ==
  /\ relReq[p].pc = "checked"
  /\ relReq[p].existing = NULL
  /\ LET from == relReq[p].from
         to == relReq[p].to
     IN IF \/ PairViolation(from, to)
           \/ from \notin DOMAIN memories
           \/ to \notin DOMAIN memories
        THEN /\ relReq' = [relReq EXCEPT ![p] = RelFailed(p)]
             /\ UNCHANGED <<relations, nextRelId, memoryCache, searchCache>>
        ELSE /\ nextRelId <= MaxRel
             /\ relations' = relations @@
                  (nextRelId :> [from_memory_id |-> from, to_memory_id |-> to,
                                 relation_type |-> relReq[p].relation_type,
                                 strength |-> Clamp(relReq[p].strength)])
             /\ nextRelId' = nextRelId + 1
             /\ relReq' = [relReq EXCEPT ![p] =
                  [pc |-> "done", from |-> from, to |-> to,
                   relation_type |-> relReq[p].relation_type,
                   strength |-> Clamp(relReq[p].strength), id |-> nextRelId]]
             /\ memoryCache' = memoryCache \ {from, to}
             /\ searchCache' = NoSearchCache
  /\ UNCHANGED <<memories, nextId, now, storeReq, lastStore, lastRel, out,
                 decayReq, cleanupReq, embedJobs, redisKeys, isRedisAvailable, travReq, burst, workerPool, batchReq, mergeReq, scheduler, clusterJobs, windowStates, windowReq, modelService>>

\* a sequential client (tests: "should enforce unique constraint on
\* (from_memory_id, to_memory_id)") takes relation1 and issues the next call
RelReturn(p) ==
  /\ relReq[p].pc \in {"done", "failed"}
  /\ lastRel' = IF relReq[p].pc = "done"
                THEN [op |-> "relate", from |-> relReq[p].from,
                      to |-> relReq[p].to, id |-> relReq[p].id]
                ELSE NoRel
  /\ relReq' = [relReq EXCEPT ![p] = IdleRel]
  /\ UNCHANGED <<memories, nextId, relations, nextRelId, searchCache,
                 memoryCache, now, storeReq, lastStore, out,
                 decayReq, cleanupReq, embedJobs, redisKeys, isRedisAvailable, travReq, burst, workerPool, batchReq, mergeReq, scheduler, clusterJobs, windowStates, windowReq, modelService>>

\* ------------------------------------------------- search, list, traverse
Queries == {"x"}

\* what a caller sees of a returned row, with the row's deleted_at as it is
\* in the table when the call returns
Ret(id) ==
  [id |-> id, user_context |-> memories[id].user_context,
   deleted |-> memories[id].deleted_at # NULL]

\* 1 - (embedding <=> query) >= threshold: the same text embeds to the same
\* vector; different texts are taken to fall under the threshold
Similar(q, id) == memories[id].content_hash = generateContentHash(q)

\* the SELECT of search: deleted_at is null, embedding is not null,
\* user_context = input.user_context || 'default'
SearchRows(u, q) ==
  {id \in DOMAIN memories :
     /\ memories[id].deleted_at = NULL
     /\ memories[id].embedding
     /\ memories[id].user_context = EffectiveContext(u)
     /\ Similar(q, id)}

\* generateHash({ query, filters: { ...input } })
SearchKey(u, q) == <<q, u>>

\* a cached result (an empty array is truthy, so it is a hit too) is
\* returned as it was stored
SearchCached(u, q) ==
  /\ SearchKey(u, q) \in DOMAIN searchCache
  /\ out' = [op |-> "search", user_context |-> u, cached |-> TRUE,
             rows |-> {Ret(id) : id \in searchCache[SearchKey(u, q)]}]
  /\ UNCHANGED <<memories, nextId, relations, nextRelId, searchCache,
                 memoryCache, now, storeReq, lastStore, relReq, lastRel,
                 decayReq, cleanupReq, embedJobs, redisKeys, isRedisAvailable, travReq, burst, workerPool, batchReq, mergeReq, scheduler, clusterJobs, windowStates, windowReq, modelService>>

\* cache miss: SELECT, bump access_count of the results, cache the results
SearchMiss(u, q) ==
  /\ SearchKey(u, q) \notin DOMAIN searchCache
  /\ LET results == SearchRows(u, q) IN
       /\ \A id \in results : memories[id].access_count < MaxAccess
       /\ memories' = [id \in DOMAIN memories |->
                         IF id \in results THEN BumpAccess(memories[id])
                         ELSE memories[id]]
       /\ searchCache' = (SearchKey(u, q) :> results) @@ searchCache
       /\ out' = [op |-> "search", user_context |-> u, cached |-> FALSE,
                  rows |-> {Ret(id) : id \in results}]
  /\ UNCHANGED <<nextId, relations, nextRelId, memoryCache, now, storeReq,
                 lastStore, relReq, lastRel,
                 decayReq, cleanupReq, embedJobs, redisKeys, isRedisAvailable, travReq, burst, workerPool, batchReq, mergeReq, scheduler, clusterJobs, windowStates, windowReq, modelService>>

\* the SELECT of list
ListRows(u) ==
  {id \in DOMAIN memories :
     /\ memories[id].deleted_at = NULL
     /\ memories[id].user_context = EffectiveContext(u)}

List(u) ==
  /\ out' = [op |-> "list", user_context |-> u, cached |-> FALSE,
             rows |-> {Ret(id) : id \in ListRows(u)}]
  /\ UNCHANGED <<memories, nextId, relations, nextRelId, searchCache,
                 memoryCache, now, storeReq, lastStore, relReq, lastRel,
                 decayReq, cleanupReq, embedJobs, redisKeys, isRedisAvailable, travReq, burst, workerPool, batchReq, mergeReq, scheduler, clusterJobs, windowStates, windowReq, modelService>>

\* ------------------------------------------------ TraversalService.traverse
MaxDepths == {1, 3}

\* getMemory: id, user_context (no default here) and deleted_at is null
getMemoryAnyContext(id, u) ==
  id \in DOMAIN memories /\ memories[id].deleted_at = NULL

getMemory(id, u) ==
  /\ id \in DOMAIN memories
  /\ memories[id].user_context = u
  /\ memories[id].deleted_at = NULL

\* getConnections: edges out of and into id whose other end is a live memory
\* of the same user_context
getConnections(id, u) ==
  {m \in DOMAIN memories :
     /\ memories[m].user_context = u
     /\ memories[m].deleted_at = NULL
     /\ \E r \in DOMAIN relations :
          \/ relations[r].from_memory_id = id /\ relations[r].to_memory_id = m
          \/ relations[r].to_memory_id = id /\ relations[r].from_memory_id = m}

RECURSIVE SetToSeq(_)
SetToSeq(S) ==
  IF S = {} THEN <<>>
  ELSE LET x == CHOOSE x \in S : \A y \in S : x <= y
       IN <<x>> \o SetToSeq(S \ {x})

\* the while loop of traverse (bfs): queue of <<id, depth>>
RECURSIVE TraverseLoop(_, _, _, _, _)
TraverseLoop(queue, visited, result, u, maxDepth) ==
  IF queue = <<>> THEN result
  ELSE LET current == Head(queue)
           id == current[1]
           depth == current[2]
       IN IF id \in visited \/ depth > maxDepth
          THEN TraverseLoop(Tail(queue), visited, result, u, maxDepth)
          ELSE IF ~getMemory(id, u)
          THEN TraverseLoop(Tail(queue), visited \cup {id}, result, u, maxDepth)
          ELSE LET conns == IF depth < maxDepth
                            THEN SetToSeq(getConnections(id, u) \ (visited \cup {id}))
                            ELSE <<>>
               IN TraverseLoop(
                    Tail(queue) \o [i \in 1..Len(conns) |-> <<conns[i], depth + 1>>],
                    visited \cup {id}, result \cup {id}, u, maxDepth)

Traverse(u, start, maxDepth) ==
  /\ out' = [op |-> "traverse", user_context |-> u, cached |-> FALSE,
             rows |-> {Ret(id) : id \in
                         TraverseLoop(<< <<start, 0>> >>, {}, {}, u, maxDepth)}]
  /\ UNCHANGED <<memories, nextId, relations, nextRelId, searchCache,
                 memoryCache, now, storeReq, lastStore, relReq, lastRel,
                 decayReq, cleanupReq, embedJobs, redisKeys, isRedisAvailable, travReq, burst, workerPool, batchReq, mergeReq, scheduler, clusterJobs, windowStates, windowReq, modelService>>

\* the traversal as the loop runs it, one awaited query per step, so that
\* other requests and the clock interleave with it

TravAlgorithms == {"bfs", "dfs"}

\* timeoutMs of the request, in clock steps (default 5000)
TimeoutInputs == {1, 5000}

\* maxNodes of the request (default 1000)
MaxNodesInputs == {2, 1000}

\* the orders in which a query without ORDER BY can return the rows S
Perms(S) ==
  {f \in [1..Cardinality(S) -> S] :
      \A i, j \in 1..Cardinality(S) : i # j => f[i] # f[j]}

\* algorithm === 'bfs' ? queue.shift() : queue.pop()
DequeueLast(algorithm, queue) ==
  [current |-> queue[Len(queue)], rest |-> SubSeq(queue, 1, Len(queue) - 1)]

Dequeue(algorithm, queue) ==
  IF algorithm = "bfs"
  THEN [current |-> Head(queue), rest |-> Tail(queue)]
  ELSE [current |-> queue[Len(queue)], rest |-> SubSeq(queue, 1, Len(queue) - 1)]

\* Date.now() - startTime > timeoutMs
TimedOutNever(req) == FALSE

TimedOut(req) == req.elapsed > req.timeoutMs

\* getMemory(memoryId, userContext, memoryTypes, tags): with tags given the
\* row must have one of them (tags && ARRAY[...])
getMemoryUnfiltered(id, u, tags) == getMemory(id, u)

getMemoryFiltered(id, u, tags) ==
  /\ getMemory(id, u)
  /\ tags # {} => memories[id].tags \cap tags # {}

TraverseStart(u, start, algorithm, maxDepth, maxNodes, timeoutMs, tags) ==
  /\ travReq.pc = "idle"
  /\ travReq' = [pc |-> "loop", user_context |-> u, start |-> start, tags |-> tags,
                 algorithm |-> algorithm, maxDepth |-> maxDepth,
                 maxNodes |-> maxNodes, timeoutMs |-> timeoutMs, elapsed |-> 0,
                 queue |-> << [id |-> start, depth |-> 0] >>, visited |-> {},
                 result |-> <<>>, current |-> [id |-> start, depth |-> 0],
                 timedOut |-> FALSE]
  /\ UNCHANGED <<memories, nextId, relations, nextRelId, searchCache,
                 memoryCache, now, storeReq, lastStore, relReq, lastRel,
                 decayReq, cleanupReq, out, embedJobs, redisKeys,
                 isRedisAvailable, burst, workerPool, batchReq, mergeReq, scheduler, clusterJobs, windowStates, windowReq, modelService>>

\* head of the while loop: loop condition, timeout check, dequeue, visited
\* and depth check
TravNext ==
  /\ travReq.pc = "loop"
  /\ travReq' =
       IF travReq.queue = <<>> \/ Len(travReq.result) >= travReq.maxNodes
       THEN [travReq EXCEPT !.pc = "done"]
       ELSE IF TimedOut(travReq)
       THEN [travReq EXCEPT !.pc = "done", !.timedOut = TRUE]
       ELSE LET d == Dequeue(travReq.algorithm, travReq.queue) IN
            IF d.current.id \in travReq.visited
                  \/ d.current.depth > travReq.maxDepth
            THEN [travReq EXCEPT !.queue = d.rest]
            ELSE [travReq EXCEPT !.queue = d.rest,
                                 !.visited = @ \cup {d.current.id},
                                 !.current = d.current,
                                 !.pc = "fetch"]
  /\ UNCHANGED <<memories, nextId, relations, nextRelId, searchCache,
                 memoryCache, now, storeReq, lastStore, relReq, lastRel,
                 decayReq, cleanupReq, out, embedJobs, redisKeys,
                 isRedisAvailable, burst, workerPool, batchReq, mergeReq, scheduler, clusterJobs, windowStates, windowReq, modelService>>

\* getMemory answered: a missing row is skipped, a row is pushed to result
TravFetch ==
  /\ travReq.pc = "fetch"
  /\ travReq' =
       IF getMemoryFiltered(travReq.current.id, travReq.user_context, travReq.tags)
       THEN [travReq EXCEPT
               !.result = Append(@, travReq.current),
               !.pc = IF travReq.current.depth < travReq.maxDepth
                      THEN "expand" ELSE "loop"]
       ELSE [travReq EXCEPT !.pc = "loop"]
  /\ UNCHANGED <<memories, nextId, relations, nextRelId, searchCache,
                 memoryCache, now, storeReq, lastStore, relReq, lastRel,
                 decayReq, cleanupReq, out, embedJobs, redisKeys,
                 isRedisAvailable, burst, workerPool, batchReq, mergeReq, scheduler, clusterJobs, windowStates, windowReq, modelService>>

\* getConnections answered: push the connections not visited yet
TravExpand ==
  /\ travReq.pc = "expand"
  /\ \E conns \in Perms(getConnections(travReq.current.id, travReq.user_context)) :
       LET fresh == SelectSeq(conns, LAMBDA m : m \notin travReq.visited) IN
       travReq' = [travReq EXCEPT
          !.queue = @ \o [i \in 1..Len(fresh) |->
                            [id |-> fresh[i], depth |-> travReq.current.depth + 1]],
          !.pc = "loop"]
  /\ UNCHANGED <<memories, nextId, relations, nextRelId, searchCache,
                 memoryCache, now, storeReq, lastStore, relReq, lastRel,
                 decayReq, cleanupReq, out, embedJobs, redisKeys,
                 isRedisAvailable, burst, workerPool, batchReq, mergeReq, scheduler, clusterJobs, windowStates, windowReq, modelService>>

\* return result
TravReturn ==
  /\ travReq.pc = "done"
  /\ out' = [op |-> "traverse", user_context |-> travReq.user_context,
             cached |-> FALSE,
             rows |-> {Ret(travReq.result[i].id) : i \in 1..Len(travReq.result)}]
  /\ travReq' = IdleTrav
  /\ UNCHANGED <<memories, nextId, relations, nextRelId, searchCache,
                 memoryCache, now, storeReq, lastStore, relReq, lastRel,
                 decayReq, cleanupReq, embedJobs, redisKeys,
                 isRedisAvailable, burst, workerPool, batchReq, mergeReq, scheduler, clusterJobs, windowStates, windowReq, modelService>>

\* time passes while the traversal runs
TravClock ==
  /\ travReq.pc \in {"loop", "fetch", "expand"}
  /\ travReq.elapsed < MaxClock
  /\ travReq' = [travReq EXCEPT !.elapsed = @ + 1]
  /\ UNCHANGED <<memories, nextId, relations, nextRelId, searchCache,
                 memoryCache, now, storeReq, lastStore, relReq, lastRel,
                 decayReq, cleanupReq, out, embedJobs, redisKeys,
                 isRedisAvailable, burst, workerPool, batchReq, mergeReq, scheduler, clusterJobs, windowStates, windowReq, modelService>>

\* one of a burst of traverse calls of a client: traverse has no limiter,
\* the call resolves with its result
BurstRequest(u, start, maxDepth) ==
  /\ burst.issued < BurstRequests
  /\ burst' = [burst EXCEPT !.issued = @ + 1, !.resolved = @ + 1]
  /\ out' = [op |-> "traverse", user_context |-> u, cached |-> FALSE,
             rows |-> {Ret(id) : id \in
                         TraverseLoop(<< <<start, 0>> >>, {}, {}, u, maxDepth)}]
  /\ UNCHANGED <<memories, nextId, relations, nextRelId, searchCache,
                 memoryCache, now, storeReq, lastStore, relReq, lastRel,
                 decayReq, cleanupReq, embedJobs, redisKeys, isRedisAvailable,
                 travReq, workerPool, batchReq, mergeReq, scheduler, clusterJobs, windowStates, windowReq, modelService>>

\* ------------------------------------- ClusteringService.clusterNewMemories
\* newMemories: id in memoryIds and embedding is not null (deleted_at is not
\* looked at); each gets its cluster_id rewritten
ClusterNewMemories(ids) ==
  /\ ids # {}
  /\ LET newMemories == {id \in ids \cap DOMAIN memories : memories[id].embedding}
     IN /\ \E c \in [newMemories -> {NULL, 1}] :
             memories' = [id \in DOMAIN memories |->
                            IF id \in newMemories
                            THEN [memories[id] EXCEPT !.cluster_id = c[id]]
                            ELSE memories[id]]
        /\ out' = [op |-> "cluster", user_context |-> "", cached |-> FALSE,
                   rows |-> {Ret(id) : id \in newMemories}]
  /\ UNCHANGED <<nextId, relations, nextRelId, searchCache, memoryCache, now,
                 storeReq, lastStore, relReq, lastRel,
                 decayReq, cleanupReq, embedJobs, redisKeys, isRedisAvailable, travReq, burst, workerPool, batchReq, mergeReq, scheduler, clusterJobs, windowStates, windowReq, modelService>>

\* --------------------------------------------- MemoryService.consolidate
\* clusterMemories({ userId }): live rows with an embedding of the context;
\* the members of the valid clusters (min_cluster_size, at least 2) get a
\* cluster_id and are invalidated
MinClusterSize == 2

Consolidate(u) ==
  /\ LET read == {id \in DOMAIN memories :
                    /\ memories[id].deleted_at = NULL
                    /\ memories[id].embedding
                    /\ memories[id].user_context = EffectiveContext(u)}
     IN \E members \in SUBSET read :
          /\ members = {} \/ Cardinality(members) >= MinClusterSize
          /\ memories' = [id \in DOMAIN memories |->
                            IF id \in members
                            THEN [memories[id] EXCEPT !.cluster_id = 1]
                            ELSE memories[id]]
          /\ memoryCache' = memoryCache \ members
          /\ searchCache' = IF members = {} THEN searchCache ELSE NoSearchCache
          /\ out' = [op |-> "cluster", user_context |-> u, cached |-> FALSE,
                     rows |-> {Ret(id) : id \in read}]
  /\ UNCHANGED <<nextId, relations, nextRelId, now, storeReq, lastStore,
                 relReq, lastRel,
                 decayReq, cleanupReq, embedJobs, redisKeys, isRedisAvailable, travReq, burst, workerPool, batchReq, mergeReq, scheduler, clusterJobs, windowStates, windowReq, modelService>>

\* ----------------------------------------------------------- DecayService
\* scores are thousandths; one tick is TickDays days, so that
\* exp(-baseDecayRate * daysSinceAccess) = exp(-ticks) with baseDecayRate 0.01
ExpTable == <<1000, 368, 135, 50, 18, 7, 2, 1>>
ExpMilli(t) == IF t + 1 <= Len(ExpTable) THEN ExpTable[t + 1] ELSE 0

\* Math.log1p(n), thousandths
Log1pTable == <<0, 693, 1099, 1386, 1609, 1792>>
Log1pMilli(n) == IF n + 1 <= Len(Log1pTable) THEN Log1pTable[n + 1] ELSE 1946

\* DEFAULT_CONFIG
accessBoost == 100
relationshipBoost == 50
archivalThreshold == 100
expirationThreshold == 10
preservationTags ==
  {"permanent", "important", "bookmark", "favorite", "pinned", "preserved"}

Max(a, b) == IF a >= b THEN a ELSE b

\* count of memory_relations rows with the memory at either end
getConnectionCount(id) ==
  Cardinality({r \in DOMAIN relations :
                 relations[r].from_memory_id = id \/ relations[r].to_memory_id = id})

\* a preservation tag, and metadata.preservedUntil absent or after now
isPreserved(row) ==
  /\ row.tags \cap preservationTags # {}
  /\ row.preservedUntil # NULL => row.preservedUntil > now

calculateDecayScore(id, row) ==
  LET lastAccess == IF row.accessed_at # NULL THEN row.accessed_at
                    ELSE row.created_at
      importance == IF row.importance_score = 0 THEN 500
                    ELSE row.importance_score
      base == (importance * ExpMilli(now - lastAccess)) \div 1000
      boosted == base + (Log1pMilli(row.access_count) * accessBoost) \div 1000
      scaled == (boosted * row.confidence) \div 1000
      linked == scaled
                  + (Log1pMilli(getConnectionCount(id)) * relationshipBoost) \div 1000
      score == IF isPreserved(row) THEN Max(linked, 950) ELSE linked
  IN Clamp(score)

determineStateNoArchived(decayScore) ==
  IF decayScore >= 500 THEN "active"
  ELSE IF decayScore >= expirationThreshold THEN "dormant"
  ELSE "expired"

determineState(decayScore) ==
  IF decayScore >= 500 THEN "active"
  ELSE IF decayScore >= archivalThreshold THEN "dormant"
  ELSE IF decayScore >= expirationThreshold THEN "archived"
  ELSE "expired"

\* processBatch(userContext): the memories that need a decay update; one
\* tick is far more than the hour of "last_decay_update < now - 1 hour"
DueForDecay(ctx) ==
  {id \in DOMAIN memories :
     /\ memories[id].user_context = ctx
     /\ memories[id].deleted_at = NULL
     /\ memories[id].state # "expired"
     /\ memories[id].last_decay_update < now}

LiveContexts == {memories[id].user_context : id \in {i \in DOMAIN memories : Live(i)}}

ProcessBatchSelect(w, ctx) ==
  /\ decayReq[w].pc = "idle"
  /\ ctx \in LiveContexts
  /\ DueForDecay(ctx) # {}
  /\ decayReq' = [decayReq EXCEPT ![w] = [pc |-> "batch", todo |-> DueForDecay(ctx)]]
  /\ UNCHANGED <<memories, nextId, relations, nextRelId, searchCache,
                 memoryCache, now, storeReq, lastStore, relReq, lastRel, out, cleanupReq, embedJobs, redisKeys, isRedisAvailable, travReq, burst, workerPool, batchReq, mergeReq, scheduler, clusterJobs, windowStates, windowReq, modelService>>

\* what is left of the batch once a memory is done
AfterMemory(todo) ==
  IF todo = {} THEN IdleDecay ELSE [pc |-> "batch", todo |-> todo]

\* updateMemoryDecay: SELECT the live row, calculateDecayScore, determineState
UpdateMemoryDecayRead(w, id) ==
  /\ decayReq[w].pc = "batch"
  /\ id \in decayReq[w].todo
  /\ LET rest == decayReq[w].todo \ {id} IN
     IF Live(id)
     THEN LET decayScore == calculateDecayScore(id, memories[id]) IN
          decayReq' = [decayReq EXCEPT ![w] =
               [pc |-> "read", id |-> id, todo |-> rest,
                from |-> memories[id].state, decayScore |-> decayScore,
                newState |-> determineState(decayScore),
                transitions |-> memories[id].transitions,
                is_compressed |-> memories[id].is_compressed]]
     ELSE decayReq' = [decayReq EXCEPT ![w] = AfterMemory(rest)]
  /\ UNCHANGED <<memories, nextId, relations, nextRelId, searchCache,
                 memoryCache, now, storeReq, lastStore, relReq, lastRel, out, cleanupReq, embedJobs, redisKeys, isRedisAvailable, travReq, burst, workerPool, batchReq, mergeReq, scheduler, clusterJobs, windowStates, windowReq, modelService>>

\* UPDATE memories SET decay_score, state, last_decay_update WHERE id = ?
UpdateMemoryDecayWrite(w) ==
  /\ decayReq[w].pc = "read"
  /\ LET id == decayReq[w].id IN
       memories' = IF id \in DOMAIN memories
                   THEN [memories EXCEPT ![id].decay_score = decayReq[w].decayScore,
                                         ![id].state = decayReq[w].newState,
                                         ![id].last_decay_update = now]
                   ELSE memories
  /\ decayReq' = [decayReq EXCEPT ![w].pc = "written"]
  /\ UNCHANGED <<nextId, relations, nextRelId, searchCache, memoryCache, now,
                 storeReq, lastStore, relReq, lastRel, out, cleanupReq, embedJobs, redisKeys, isRedisAvailable, travReq, burst, workerPool, batchReq, mergeReq, scheduler, clusterJobs, windowStates, windowReq, modelService>>

\* handleStateTransition(memory, newState), memory being the row as read:
\* nothing to do when the state is the same; otherwise metadata.transitions
\* is set to the transitions of the row as read with one entry pushed
Transition(from, to) == [from |-> from, to |-> to, timestamp |-> now]

HandleStateTransition(w) ==
  /\ decayReq[w].pc = "written"
  /\ LET id == decayReq[w].id IN
     IF decayReq[w].from = decayReq[w].newState
     THEN /\ decayReq' = [decayReq EXCEPT ![w] = AfterMemory(decayReq[w].todo)]
          /\ UNCHANGED memories
     ELSE /\ memories' =
               IF id \in DOMAIN memories
               THEN [memories EXCEPT ![id].transitions =
                       Append(decayReq[w].transitions,
                              Transition(decayReq[w].from, decayReq[w].newState))]
               ELSE memories
          /\ decayReq' = [decayReq EXCEPT ![w].pc = "logged"]
  /\ UNCHANGED <<nextId, relations, nextRelId, searchCache, memoryCache, now,
                 storeReq, lastStore, relReq, lastRel, out, cleanupReq, embedJobs, redisKeys, isRedisAvailable, travReq, burst, workerPool, batchReq, mergeReq, scheduler, clusterJobs, windowStates, windowReq, modelService>>

\* the specific transitions: an archived memory that is not compressed is
\* handed to CompressionService.compressMemory, which computes a
\* CompressedMemory, writes nothing to the database and whose result is
\* dropped; an expired memory is soft deleted
HandleSpecificTransition(w) ==
  /\ decayReq[w].pc = "logged"
  /\ LET id == decayReq[w].id IN
       memories' = IF /\ decayReq[w].newState = "expired"
                      /\ id \in DOMAIN memories
                   THEN [memories EXCEPT ![id].deleted_at = now]
                   ELSE memories
  /\ decayReq' = [decayReq EXCEPT ![w] = AfterMemory(decayReq[w].todo)]
  /\ UNCHANGED <<nextId, relations, nextRelId, searchCache, memoryCache, now,
                 storeReq, lastStore, relReq, lastRel, out, cleanupReq, embedJobs, redisKeys, isRedisAvailable, travReq, burst, workerPool, batchReq, mergeReq, scheduler, clusterJobs, windowStates, windowReq, modelService>>

\* a statement of updateMemoryDecay or handleStateTransition throws (the
\* database is not reachable, the statement times out): processBatch
\* catches, counts the error and goes on with the next memory
DecayStatementFails(w) ==
  /\ decayReq[w].pc \in {"read", "written", "logged"}
  /\ decayReq' = [decayReq EXCEPT ![w] =
                    [pc |-> "failed", id |-> decayReq[w].id, todo |-> decayReq[w].todo,
                     from |-> decayReq[w].from, newState |-> decayReq[w].newState]]
  /\ UNCHANGED <<memories, nextId, relations, nextRelId, searchCache, memoryCache, now,
                 storeReq, lastStore, relReq, lastRel, out, cleanupReq, embedJobs, redisKeys, isRedisAvailable, travReq, burst, workerPool, batchReq, mergeReq, scheduler, clusterJobs, windowStates, windowReq, modelService>>

DecayCatch(w) ==
  /\ decayReq[w].pc = "failed"
  /\ decayReq' = [decayReq EXCEPT ![w] = AfterMemory(decayReq[w].todo)]
  /\ UNCHANGED <<memories, nextId, relations, nextRelId, searchCache, memoryCache, now,
                 storeReq, lastStore, relReq, lastRel, out, cleanupReq, embedJobs, redisKeys, isRedisAvailable, travReq, burst, workerPool, batchReq, mergeReq, scheduler, clusterJobs, windowStates, windowReq, modelService>>

\* preserveMemory(memoryId, until): the first UPDATE carries the predicate
\* NOT ('preserved' = ANY(tags)); the second writes metadata.preservedUntil
PreservedRow(row) ==
  IF "preserved" \in row.tags THEN row
  ELSE [row EXCEPT !.decay_score = 1000, !.state = "active",
                   !.last_decay_update = now, !.tags = @ \cup {"preserved"}]

PreserveMemory(id, until) ==
  /\ id \in DOMAIN memories
  /\ LET first == PreservedRow(memories[id])
         second == IF until # NULL THEN [first EXCEPT !.preservedUntil = until]
                   ELSE first
     IN /\ memories' = [memories EXCEPT ![id] = second]
        /\ out' = [op |-> "preserve", id |-> id, at |-> now, row |-> second]
  /\ UNCHANGED <<nextId, relations, nextRelId, searchCache, memoryCache, now,
                 storeReq, lastStore, relReq, lastRel, decayReq, cleanupReq, embedJobs, redisKeys, isRedisAvailable, travReq, burst, workerPool, batchReq, mergeReq, scheduler, clusterJobs, windowStates, windowReq, modelService>>

\* MemoryService.update({ id, updates: { tags } })
TagInputs == {{}, {"important"}}

Update(id, tags) ==
  /\ id \in DOMAIN memories
  /\ memories' = [memories EXCEPT ![id].tags = tags]
  /\ memoryCache' = memoryCache \ {id}
  /\ searchCache' = NoSearchCache
  /\ UNCHANGED <<nextId, relations, nextRelId, now, storeReq, lastStore,
                 relReq, lastRel, decayReq, out, cleanupReq, embedJobs, redisKeys, isRedisAvailable, travReq, burst, workerPool, batchReq, mergeReq, scheduler, clusterJobs, windowStates, windowReq, modelService>>

\* time passes
Tick ==
  /\ now < MaxTime
  /\ now' = now + 1
  /\ UNCHANGED <<memories, nextId, relations, nextRelId, searchCache,
                 memoryCache, storeReq, lastStore, relReq, lastRel, decayReq,
                 out, cleanupReq, embedJobs, redisKeys, isRedisAvailable, travReq, burst, workerPool, batchReq, mergeReq, scheduler, clusterJobs, windowStates, windowReq, modelService>>

\* ------------------------------------- DecayService.cleanupExpiredMemories
\* retentionDays = 30 is less than a tick: deleted_at < now - 30 days is
\* deleted_at < now in ticks
CleanupCandidates ==
  {id \in DOMAIN memories :
     /\ memories[id].deleted_at # NULL
     /\ memories[id].deleted_at < now
     /\ memories[id].state = "expired"}

\* SELECT id ... ; an empty selection returns at once. run tells one run of
\* the periodic cleanup from the next
CleanupSelect ==
  /\ cleanupReq.pc = "idle"
  /\ cleanupReq' = IF CleanupCandidates = {}
                   THEN [pc |-> "idle", run |-> 1 - cleanupReq.run]
                   ELSE [pc |-> "selected", run |-> 1 - cleanupReq.run,
                         ids |-> CleanupCandidates]
  /\ UNCHANGED <<memories, nextId, relations, nextRelId, searchCache,
                 memoryCache, now, storeReq, lastStore, relReq, lastRel,
                 decayReq, out, embedJobs, redisKeys, isRedisAvailable, travReq, burst, workerPool, batchReq, mergeReq, scheduler, clusterJobs, windowStates, windowReq, modelService>>

\* DELETE FROM memory_relations WHERE from_memory_id IN ids OR to_memory_id IN ids
CleanupDeleteEdges ==
  /\ cleanupReq.pc = "selected"
  /\ LET keep == {r \in DOMAIN relations :
                    /\ relations[r].from_memory_id \notin cleanupReq.ids
                    /\ relations[r].to_memory_id \notin cleanupReq.ids}
     IN /\ relations' = [r \in keep |-> relations[r]]
        /\ cleanupReq' = [pc |-> "edges", run |-> cleanupReq.run,
                          ids |-> cleanupReq.ids,
                          deletedEdges |-> Cardinality(DOMAIN relations \ keep)]
  /\ UNCHANGED <<memories, nextId, nextRelId, searchCache, memoryCache, now,
                 storeReq, lastStore, relReq, lastRel, decayReq, out, embedJobs, redisKeys, isRedisAvailable, travReq, burst, workerPool, batchReq, mergeReq, scheduler, clusterJobs, windowStates, windowReq, modelService>>

\* DELETE FROM memories WHERE id IN ids; the foreign keys of
\* memory_relations are ON DELETE CASCADE
CleanupDeleteMemories ==
  /\ cleanupReq.pc = "edges"
  /\ LET left == DOMAIN memories \ cleanupReq.ids
         keep == {r \in DOMAIN relations :
                    /\ relations[r].from_memory_id \in left
                    /\ relations[r].to_memory_id \in left}
     IN /\ memories' = [id \in left |-> memories[id]]
        /\ relations' = [r \in keep |-> relations[r]]
  /\ cleanupReq' = [pc |-> "idle", run |-> cleanupReq.run]
  /\ UNCHANGED <<nextId, nextRelId, searchCache, memoryCache, now, storeReq,
                 lastStore, relReq, lastRel, decayReq, out, embedJobs, redisKeys, isRedisAvailable, travReq, burst, workerPool, batchReq, mergeReq, scheduler, clusterJobs, windowStates, windowReq, modelService>>

\* ------------------------------------------------------- embedding worker

\* Worker('embedding-generation', { concurrency: WORKER_CONCURRENCY || 3 })
EmbedConcurrency == 3

\* embeddingQueue defaultJobOptions: attempts 3
EmbedAttempts == 3

\* The errors a job can meet, each with the class it belongs to and the
\* fragments of its lower-cased message that the classification can look for:
\*   connect ECONNREFUSED (Redis, PostgreSQL)        network
\*   TypeError "fetch failed" (model download)       network
\*   HTTP 429 "Too Many Requests"                    rate-limit
\*   connect ETIMEDOUT                               timeout
\*   pg pool "timeout exceeded when trying to connect"  timeout
\*   "Failed to load embedding model"                model
\*   "Embedding dimension mismatch"                  dimension
EmbedErrors ==
  { [class |-> "network",    message |-> {"connect", "econnrefused"}],
    [class |-> "network",    message |-> {"fetch failed"}],
    [class |-> "rate-limit", message |-> {"429", "too many requests"}],
    [class |-> "timeout",    message |-> {"connect", "etimedout"}],
    [class |-> "timeout",    message |-> {"timeout exceeded", "connect"}],
    [class |-> "model",      message |-> {"failed to load embedding model"}],
    [class |-> "dimension",  message |-> {"embedding dimension mismatch"}] }

\* retryableMessages, lower-cased as isRetryableError compares them
retryableMessages ==
  {"econnrefused", "etimedout", "enotfound", "rate limit", "too many requests",
   "429", "503", "504"}

\* errorMessage.includes(msg) for some msg of the list
isRetryableError(error) == error.message \cap retryableMessages # {}

ActiveJobs == {j \in DOMAIN embedJobs : embedJobs[j].pc \in {"active", "generated"}}

\* the worker takes a waiting job and reads the row: a row that has its
\* embedding already completes the job at once (idempotency)
EmbedStart(j) ==
  /\ j \in DOMAIN embedJobs
  /\ embedJobs[j].pc = "waiting"
  /\ Cardinality(ActiveJobs) < EmbedConcurrency
  /\ LET id == embedJobs[j].memoryId IN
     embedJobs' = [embedJobs EXCEPT ![j].pc =
        IF id \in DOMAIN memories /\ memories[id].embedding
        THEN "completed" ELSE "active"]
  /\ UNCHANGED <<memories, nextId, relations, nextRelId, searchCache,
                 memoryCache, now, storeReq, lastStore, relReq, lastRel, out,
                 decayReq, cleanupReq, redisKeys,
                 isRedisAvailable, travReq, burst, workerPool, batchReq, mergeReq, scheduler, clusterJobs, windowStates, windowReq, modelService>>

\* embeddingService.generateEmbedding(content) returned a vector
EmbedGenerate(j) ==
  /\ j \in DOMAIN embedJobs
  /\ embedJobs[j].pc = "active"
  /\ embedJobs' = [embedJobs EXCEPT ![j].pc = "generated"]
  /\ UNCHANGED <<memories, nextId, relations, nextRelId, searchCache,
                 memoryCache, now, storeReq, lastStore, relReq, lastRel, out,
                 decayReq, cleanupReq, redisKeys,
                 isRedisAvailable, travReq, burst, workerPool, batchReq, mergeReq, scheduler, clusterJobs, windowStates, windowReq, modelService>>

\* UPDATE memories SET embedding = ..., updated_at = now WHERE id = memoryId
EmbeddedRow(row) == [row EXCEPT !.embedding = TRUE]

EmbedStore(j) ==
  /\ j \in DOMAIN embedJobs
  /\ embedJobs[j].pc = "generated"
  /\ LET id == embedJobs[j].memoryId IN
     memories' = IF id \in DOMAIN memories
                 THEN [memories EXCEPT ![id] = EmbeddedRow(@)]
                 ELSE memories
  /\ embedJobs' = [embedJobs EXCEPT ![j].pc = "completed"]
  /\ UNCHANGED <<nextId, relations, nextRelId, searchCache, memoryCache, now,
                 storeReq, lastStore, relReq, lastRel, out, decayReq,
                 cleanupReq, redisKeys,
                 isRedisAvailable, travReq, burst, workerPool, batchReq, mergeReq, scheduler, clusterJobs, windowStates, windowReq, modelService>>

\* handleNonRetryableError: metadata = metadata || { embeddingError, timestamp }
FlaggedRow(row) == [row EXCEPT !.embeddingError = TRUE]

\* the catch block of processEmbedding: a retryable error is thrown again and
\* BullMQ puts the job back until its attempts are used up; any other error is
\* written to the row and the job completes
EmbedCatch(j, error) ==
  /\ j \in DOMAIN embedJobs
  /\ embedJobs[j].pc \in {"active", "generated"}
  /\ LET id == embedJobs[j].memoryId IN
     IF isRetryableError(error)
     THEN /\ embedJobs' = [embedJobs EXCEPT ![j] =
                [memoryId |-> id,
                 pc |-> IF embedJobs[j].attemptsMade + 1 < EmbedAttempts
                        THEN "waiting" ELSE "failed",
                 attemptsMade |-> embedJobs[j].attemptsMade + 1,
                 error |-> error.class,
                 routed |-> "retry"]]
          /\ memories' = memories
     ELSE /\ embedJobs' = [embedJobs EXCEPT ![j] =
                [memoryId |-> id, pc |-> "completed",
                 attemptsMade |-> embedJobs[j].attemptsMade,
                 error |-> error.class, routed |-> "flag"]]
          /\ memories' = IF id \in DOMAIN memories
                         THEN [memories EXCEPT ![id] = FlaggedRow(@)]
                         ELSE memories
  /\ UNCHANGED <<nextId, relations, nextRelId, searchCache, memoryCache, now,
                 storeReq, lastStore, relReq, lastRel, out, decayReq,
                 cleanupReq, redisKeys,
                 isRedisAvailable, travReq, burst, workerPool, batchReq, mergeReq, scheduler, clusterJobs, windowStates, windowReq, modelService>>

\* at-least-once delivery: the lock of a job in a worker slot is not renewed
\* in time (the 'stalled' event), the queue hands the job out again while
\* the first run goes on; the second delivery is a further entry for the
\* same memoryId
EmbedStalled(j) ==
  /\ j \in DOMAIN embedJobs
  /\ embedJobs[j].pc \in {"active", "generated"}
  /\ Cardinality(DOMAIN embedJobs) < MaxMem
  /\ embedJobs' = addEmbeddingJob(embedJobs[j].memoryId)
  /\ UNCHANGED <<memories, nextId, relations, nextRelId, searchCache,
                 memoryCache, now, storeReq, lastStore, relReq, lastRel, out,
                 decayReq, cleanupReq, redisKeys,
                 isRedisAvailable, travReq, burst, workerPool, batchReq, mergeReq, scheduler, clusterJobs, windowStates, windowReq, modelService>>

\* ------------------------------------------------------------ CacheService

\* generateKey: mcp:<namespace>:<identifier>
generateKey(namespace, identifier) == <<namespace, identifier>>

\* the keys of the local tier (NodeCache)
LocalKeys ==
  {generateKey("memory", id) : id \in memoryCache}
     \cup {generateKey("search", k) : k \in DOMAIN searchCache}

SearchKeys == {SearchKey(EffectiveContext(u), q) : u \in UserInputs, q \in Queries}

\* get returns a value: Redis first if it is available, then the local cache
CacheGet(namespace, identifier) ==
  \/ isRedisAvailable /\ generateKey(namespace, identifier) \in redisKeys
  \/ generateKey(namespace, identifier) \in LocalKeys

\* set: the local cache always, Redis if it is available
RedisSet(key) == IF isRedisAvailable THEN redisKeys \cup {key} ELSE redisKeys

CacheMemory(id) ==
  /\ memoryCache' = memoryCache \cup {id}
  /\ redisKeys' = RedisSet(generateKey("memory", id))
  /\ out' = NoOut
  /\ UNCHANGED <<memories, nextId, relations, nextRelId, searchCache, now,
                 storeReq, lastStore, relReq, lastRel, decayReq, cleanupReq,
                 embedJobs, isRedisAvailable, travReq, burst, workerPool, batchReq, mergeReq, scheduler, clusterJobs, windowStates, windowReq, modelService>>

CacheSearchResult(k) ==
  /\ searchCache' = (k :> {}) @@ searchCache
  /\ redisKeys' = RedisSet(generateKey("search", k))
  /\ out' = NoOut
  /\ UNCHANGED <<memories, nextId, relations, nextRelId, memoryCache, now,
                 storeReq, lastStore, relReq, lastRel, decayReq, cleanupReq,
                 embedJobs, isRedisAvailable, travReq, burst, workerPool, batchReq, mergeReq, scheduler, clusterJobs, windowStates, windowReq, modelService>>

\* delete('memory', id) then clearNamespace('search'): both touch the local
\* cache always and Redis only if it is available
InvalidateMemory(id) ==
  /\ memoryCache' = memoryCache \ {id}
  /\ searchCache' = NoSearchCache
  /\ redisKeys' = IF isRedisAvailable
                  THEN {key \in redisKeys :
                          key # generateKey("memory", id) /\ key[1] # "search"}
                  ELSE redisKeys
  /\ out' = [op |-> "invalidate", id |-> id]
  /\ UNCHANGED <<memories, nextId, relations, nextRelId, now, storeReq,
                 lastStore, relReq, lastRel, decayReq, cleanupReq, embedJobs,
                 isRedisAvailable, travReq, burst, workerPool, batchReq, mergeReq, scheduler, clusterJobs, windowStates, windowReq, modelService>>

\* redis.on('error'): isRedisAvailable = false
RedisError ==
  /\ isRedisAvailable
  /\ isRedisAvailable' = FALSE
  /\ UNCHANGED <<memories, nextId, relations, nextRelId, searchCache,
                 memoryCache, now, storeReq, lastStore, relReq, lastRel,
                 decayReq, cleanupReq, out, embedJobs, redisKeys, travReq, burst, workerPool, batchReq, mergeReq, scheduler, clusterJobs, windowStates, windowReq, modelService>>

\* redis.on('connect'): isRedisAvailable = true
RedisConnect ==
  /\ ~isRedisAvailable
  /\ isRedisAvailable' = TRUE
  /\ UNCHANGED <<memories, nextId, relations, nextRelId, searchCache,
                 memoryCache, now, storeReq, lastStore, relReq, lastRel,
                 decayReq, cleanupReq, out, embedJobs, redisKeys, travReq, burst, workerPool, batchReq, mergeReq, scheduler, clusterJobs, windowStates, windowReq, modelService>>

\* ------------------------------------------------- scripts/start-workers

\* the workers started on queueService.connection
PoolWorkers == {"embedding", "batch", "clustering", "decay"}

\* all workers running, no job in flight, the shared connection open
RunningPool ==
  [connection |-> "ready",
   workers |-> [w \in PoolWorkers |->
                  [state |-> "running", active |-> 0, lost |-> FALSE]]]

\* a worker takes a job from its queue
PoolJobStart(w) ==
  /\ workerPool.connection = "ready"
  /\ workerPool.workers[w].state = "running"
  /\ workerPool.workers[w].active = 0
  /\ workerPool' = [workerPool EXCEPT !.workers[w].active = 1]
  /\ UNCHANGED <<memories, nextId, relations, nextRelId, searchCache,
                 memoryCache, now, storeReq, lastStore, relReq, lastRel,
                 decayReq, cleanupReq, out, embedJobs, redisKeys,
                 isRedisAvailable, travReq, burst, batchReq, mergeReq, scheduler, clusterJobs, windowStates, windowReq, modelService>>

\* the job's processor returns; with the connection gone the worker cannot
\* move the job to completed
PoolJobFinish(w) ==
  /\ workerPool.workers[w].active = 1
  /\ workerPool' = [workerPool EXCEPT
        !.workers[w].active = 0,
        !.workers[w].lost = (@ \/ workerPool.connection = "end")]
  /\ UNCHANGED <<memories, nextId, relations, nextRelId, searchCache,
                 memoryCache, now, storeReq, lastStore, relReq, lastRel,
                 decayReq, cleanupReq, out, embedJobs, redisKeys,
                 isRedisAvailable, travReq, burst, batchReq, mergeReq, scheduler, clusterJobs, windowStates, windowReq, modelService>>

\* SIGINT / SIGTERM: Promise.all of the four shutdown() calls, each of which
\* starts with worker.close()
PoolSignal ==
  /\ \E w \in PoolWorkers : workerPool.workers[w].state = "running"
  /\ workerPool' = [workerPool EXCEPT !.workers =
        [w \in PoolWorkers |->
           IF workerPool.workers[w].state = "running"
           THEN [workerPool.workers[w] EXCEPT !.state = "closing"]
           ELSE workerPool.workers[w]]]
  /\ UNCHANGED <<memories, nextId, relations, nextRelId, searchCache,
                 memoryCache, now, storeReq, lastStore, relReq, lastRel,
                 decayReq, cleanupReq, out, embedJobs, redisKeys,
                 isRedisAvailable, travReq, burst, batchReq, mergeReq, scheduler, clusterJobs, windowStates, windowReq, modelService>>

\* await this.worker.close() resolves once the worker's jobs have finished
PoolWorkerClosed(w) ==
  /\ workerPool.workers[w].state = "closing"
  /\ workerPool.workers[w].active = 0
  /\ workerPool' = [workerPool EXCEPT !.workers[w].state = "closed"]
  /\ UNCHANGED <<memories, nextId, relations, nextRelId, searchCache,
                 memoryCache, now, storeReq, lastStore, relReq, lastRel,
                 decayReq, cleanupReq, out, embedJobs, redisKeys,
                 isRedisAvailable, travReq, burst, batchReq, mergeReq, scheduler, clusterJobs, windowStates, windowReq, modelService>>

\* if (this.connection) await this.connection.quit(): the connection of
\* the worker is the shared one
PoolConnectionQuit(w) ==
  /\ workerPool.workers[w].state = "closed"
  /\ workerPool' = [workerPool EXCEPT !.workers[w].state = "stopped",
                                      !.connection = "end"]
  /\ UNCHANGED <<memories, nextId, relations, nextRelId, searchCache,
                 memoryCache, now, storeReq, lastStore, relReq, lastRel,
                 decayReq, cleanupReq, out, embedJobs, redisKeys,
                 isRedisAvailable, travReq, burst, batchReq, mergeReq, scheduler, clusterJobs, windowStates, windowReq, modelService>>

\* ------------------------------- MemoryService.batchStore, batch-import job

IdleBatch == [pc |-> "idle"]

\* processBatchImport: const chunkSize = 10
chunkSize == 10

\* the memories of a batch: one to NumProcs items
BatchInputs == UNION {[1..n -> Contents] : n \in 1..NumProcs}

\* what the call of an item came to
Outcome(p) == IF storeReq[p].pc = "done" THEN "success" ELSE "failed"

\* the tally: success++ for a fulfilled result with success, failed++ for
\* any other
countResultsNoFailed(req, outcomes) ==
  [req EXCEPT
     !.success = @ + Len(SelectSeq(outcomes, LAMBDA o : o = "success")),
     !.outcomes = @ \o outcomes]

countResults(req, outcomes) ==
  [req EXCEPT
     !.success = @ + Len(SelectSeq(outcomes, LAMBDA o : o = "success")),
     !.failed = @ + Len(SelectSeq(outcomes, LAMBDA o : o # "success")),
     !.outcomes = @ \o outcomes]

NewBatch(kind, items, u) ==
  [pc |-> "run", kind |-> kind, items |-> items, user_context |-> u,
   processed |-> 0, success |-> 0, failed |-> 0, outcomes |-> <<>>]

\* batchStore(input)
BatchStoreStart(items, u) ==
  /\ batchReq.pc = "idle"
  /\ \A p \in Procs : storeReq[p].pc = "idle"
  /\ batchReq' = NewBatch("batchStore", items, u)
  /\ UNCHANGED <<memories, nextId, relations, nextRelId, searchCache,
                 memoryCache, now, storeReq, lastStore, relReq, lastRel,
                 decayReq, cleanupReq, out, embedJobs, redisKeys,
                 isRedisAvailable, travReq, burst, workerPool, mergeReq, scheduler, clusterJobs, windowStates, windowReq, modelService>>

\* for (const memory of input.memories) await this.store(...): the store
\* call of the next item starts
BatchStoreCall ==
  /\ batchReq.pc = "run"
  /\ batchReq.kind = "batchStore"
  /\ batchReq.processed < Len(batchReq.items)
  /\ StoreSelect(1, batchReq.user_context,
                 batchReq.items[batchReq.processed + 1], FALSE)

\* the store call returned or threw: push to success or to failed
BatchStoreSettle ==
  /\ batchReq.pc = "run"
  /\ batchReq.kind = "batchStore"
  /\ storeReq[1].pc \in {"done", "failed"}
  /\ batchReq' = [countResults(batchReq, <<Outcome(1)>>)
                    EXCEPT !.processed = @ + 1]
  /\ storeReq' = [storeReq EXCEPT ![1] = IdleStore]
  /\ UNCHANGED <<memories, nextId, relations, nextRelId, searchCache,
                 memoryCache, now, lastStore, relReq, lastRel,
                 decayReq, cleanupReq, out, embedJobs, redisKeys,
                 isRedisAvailable, travReq, burst, workerPool, mergeReq, scheduler, clusterJobs, windowStates, windowReq, modelService>>

\* processBatchImport(job)
ImportStart(items) ==
  /\ batchReq.pc = "idle"
  /\ \A p \in Procs : storeReq[p].pc = "idle"
  /\ batchReq' = NewBatch("import", items, "")
  /\ UNCHANGED <<memories, nextId, relations, nextRelId, searchCache,
                 memoryCache, now, storeReq, lastStore, relReq, lastRel,
                 decayReq, cleanupReq, out, embedJobs, redisKeys,
                 isRedisAvailable, travReq, burst, workerPool, mergeReq, scheduler, clusterJobs, windowStates, windowReq, modelService>>

\* the items of the chunk at hand
Chunk(req) ==
  SubSeq(req.items, req.processed + 1,
         IF req.processed + chunkSize < Len(req.items)
         THEN req.processed + chunkSize ELSE Len(req.items))

\* chunk.map(async (memory) => memoryService.create(memory, false)): the
\* calls of a chunk run side by side
ImportCall(p) ==
  /\ batchReq.pc = "run"
  /\ batchReq.kind = "import"
  /\ p \in 1..Len(Chunk(batchReq))
  /\ StoreSelect(p, "", Chunk(batchReq)[p], FALSE)

\* Promise.allSettled resolved: count the results of the chunk
ImportSettle ==
  /\ batchReq.pc = "run"
  /\ batchReq.kind = "import"
  /\ Chunk(batchReq) # <<>>
  /\ \A p \in 1..Len(Chunk(batchReq)) : storeReq[p].pc \in {"done", "failed"}
  /\ batchReq' = [countResults(batchReq,
                      [p \in 1..Len(Chunk(batchReq)) |-> Outcome(p)])
                    EXCEPT !.processed = @ + Len(Chunk(batchReq))]
  /\ storeReq' = [p \in Procs |-> IdleStore]
  /\ UNCHANGED <<memories, nextId, relations, nextRelId, searchCache,
                 memoryCache, now, lastStore, relReq, lastRel,
                 decayReq, cleanupReq, out, embedJobs, redisKeys,
                 isRedisAvailable, travReq, burst, workerPool, mergeReq, scheduler, clusterJobs, windowStates, windowReq, modelService>>

\* the loop is over: return { success, failed } / the job completes
BatchReturn ==
  /\ batchReq.pc = "run"
  /\ batchReq.processed >= Len(batchReq.items)
  /\ batchReq' = [batchReq EXCEPT !.pc = "done"]
  /\ UNCHANGED <<memories, nextId, relations, nextRelId, searchCache,
                 memoryCache, now, storeReq, lastStore, relReq, lastRel,
                 decayReq, cleanupReq, out, embedJobs, redisKeys,
                 isRedisAvailable, travReq, burst, workerPool, mergeReq, scheduler, clusterJobs, windowStates, windowReq, modelService>>

\* batchImport(memories, userContext) with async processing enabled: the job
\* { memories, userId: userContext } is queued and the batch worker starts
\* processBatchImport on it; user_context holds the userId of the job
BatchImport(items, userContext) ==
  /\ batchReq.pc = "idle"
  /\ \A p \in Procs : storeReq[p].pc = "idle"
  /\ batchReq' = NewBatch("import", items, userContext)
  /\ UNCHANGED <<memories, nextId, relations, nextRelId, searchCache,
                 memoryCache, now, storeReq, lastStore, relReq, lastRel,
                 decayReq, cleanupReq, out, embedJobs, redisKeys,
                 isRedisAvailable, travReq, burst, workerPool, mergeReq,
                 scheduler, clusterJobs, windowStates, windowReq, modelService>>

\* ----------------------------------------------- BatchWorker.mergeMemories

IdleMerge == [pc |-> "idle"]

\* MemoryService.getByIds: id in ids and deleted_at is null
getByIdsWithDeleted(ids) == ids \cap DOMAIN memories

getByIds(ids) == {id \in ids : Live(id)}

\* fetch the memories; fewer than 2 of them: throw
MergeFetch(ids) ==
  /\ mergeReq.pc = "idle"
  /\ LET found == getByIds(ids) IN
     mergeReq' = [pc |-> IF Cardinality(found) < 2 THEN "failed" ELSE "fetched",
                  memoryIds |-> ids, memories |-> found,
                  live |-> Cardinality({id \in ids : Live(id)}),
                  mergedId |-> NULL, attemptsMade |-> 0, merged |-> {}]
  /\ UNCHANGED <<memories, nextId, relations, nextRelId, searchCache,
                 memoryCache, now, storeReq, lastStore, relReq, lastRel,
                 decayReq, cleanupReq, out, embedJobs, redisKeys,
                 isRedisAvailable, travReq, burst, workerPool, batchReq, scheduler, clusterJobs, windowStates, windowReq, modelService>>

\* defaultJobOptions.attempts of the consolidation queue
ConsolidationAttempts == 2

\* memoryService.create of the merged memory: its content carries the ids
\* and the merge date (the attempts of a job are the backoff delay apart, so
\* each has its own date), no user_context is given; merged collects the
\* memories the job created over its attempts
MergeCreate ==
  /\ mergeReq.pc = "fetched"
  /\ nextId <= MaxMem + 1
  /\ memories' = memories @@
        (nextId :> NewRow("default",
                          generateContentHash(
                            <<"merged", mergeReq.memoryIds,
                              <<now, mergeReq.attemptsMade>> >>),
                          TRUE, {}))
  /\ nextId' = nextId + 1
  /\ memoryCache' = memoryCache \cup {nextId}
  /\ searchCache' = NoSearchCache
  /\ mergeReq' = [mergeReq EXCEPT !.pc = "created", !.mergedId = nextId,
                                  !.merged = @ \cup {nextId}]
  /\ UNCHANGED <<relations, nextRelId, now, storeReq, lastStore, relReq,
                 lastRel, decayReq, cleanupReq, out, embedJobs, redisKeys,
                 isRedisAvailable, travReq, burst, workerPool, batchReq, scheduler, clusterJobs, windowStates, windowReq, modelService>>

\* memoryService.archiveMemories(memoryIds), return
MergeArchive ==
  /\ mergeReq.pc = "created"
  /\ memories' = [id \in DOMAIN memories |->
                    IF id \in mergeReq.memoryIds
                    THEN [memories[id] EXCEPT !.deleted_at = now, !.archived = TRUE]
                    ELSE memories[id]]
  /\ memoryCache' = memoryCache \ mergeReq.memoryIds
  /\ searchCache' = NoSearchCache
  /\ mergeReq' = [mergeReq EXCEPT !.pc = "done"]
  /\ UNCHANGED <<nextId, relations, nextRelId, now, storeReq, lastStore,
                 relReq, lastRel, decayReq, cleanupReq, out, embedJobs,
                 redisKeys, isRedisAvailable, travReq, burst, workerPool,
                 batchReq, scheduler, clusterJobs, windowStates, windowReq, modelService>>

\* an attempt fails after the merged memory was created and before the
\* originals are archived (the UPDATE of archiveMemories throws, or the
\* worker stops): mergeMemories rethrows and the queue keeps the job for
\* another attempt until its attempts are used up
MergeAttemptFails ==
  /\ mergeReq.pc = "created"
  /\ mergeReq' = [mergeReq EXCEPT
                    !.pc = IF mergeReq.attemptsMade + 1 < ConsolidationAttempts
                             THEN "waiting" ELSE "failed",
                    !.attemptsMade = @ + 1]
  /\ UNCHANGED <<memories, nextId, relations, nextRelId, searchCache,
                 memoryCache, now, storeReq, lastStore, relReq, lastRel,
                 decayReq, cleanupReq, out, embedJobs, redisKeys,
                 isRedisAvailable, travReq, burst, workerPool, batchReq,
                 scheduler, clusterJobs, windowStates, windowReq, modelService>>

\* the next attempt of the job: mergeMemories runs again from its start
\* with the same memoryIds
MergeRetry ==
  /\ mergeReq.pc = "waiting"
  /\ LET found == getByIds(mergeReq.memoryIds) IN
     mergeReq' = [mergeReq EXCEPT
                    !.pc = IF Cardinality(found) < 2 THEN "failed"
                           ELSE "fetched",
                    !.memories = found,
                    !.live = Cardinality(found)]
  /\ UNCHANGED <<memories, nextId, relations, nextRelId, searchCache,
                 memoryCache, now, storeReq, lastStore, relReq, lastRel,
                 decayReq, cleanupReq, out, embedJobs, redisKeys,
                 isRedisAvailable, travReq, burst, workerPool, batchReq,
                 scheduler, clusterJobs, windowStates, windowReq, modelService>>

\* --------------------------------------------- MemoryService.graphSearch

\* depth of the request
GraphDepths == {0, 1, 2}

\* generateHash({ query, filters: { ...input } }): the input carries depth
GraphSearchKey(u, q, depth) == <<q, u, depth>>

\* the other ends of the memory_relations rows that touch a memory of S
RelatedIds(S) ==
  {relations[r].to_memory_id :
      r \in {e \in DOMAIN relations : relations[e].from_memory_id \in S}}
  \cup
  {relations[r].from_memory_id :
      r \in {e \in DOMAIN relations : relations[e].to_memory_id \in S}}

\* the levels of the expansion: a related id not visited yet is marked
\* visited and fetched with WHERE id = relatedId AND deleted_at IS NULL
RECURSIVE GraphExpand(_, _, _, _)
GraphExpand(level, visited, allResults, depth) ==
  IF depth = 0 \/ level = {} THEN allResults
  ELSE LET fresh == RelatedIds(level) \ visited
           fetched == {id \in fresh : id \in DOMAIN memories
                                        /\ memories[id].deleted_at = NULL}
       IN GraphExpand(fetched, visited \cup fresh, allResults \cup fetched,
                      depth - 1)

\* graphSearch(input): search(input), cached or not, then the expansion
GraphSearch(u, q, depth) ==
  LET key == GraphSearchKey(u, q, depth)
      cached == key \in DOMAIN searchCache
      initialResults == IF cached THEN searchCache[key] \cap DOMAIN memories
                        ELSE SearchRows(u, q)
  IN /\ IF cached
        THEN UNCHANGED <<memories, searchCache>>
        ELSE /\ \A id \in initialResults : memories[id].access_count < MaxAccess
             /\ memories' = [id \in DOMAIN memories |->
                               IF id \in initialResults
                               THEN BumpAccess(memories[id]) ELSE memories[id]]
             /\ searchCache' = (key :> initialResults) @@ searchCache
     /\ out' = [op |-> "graphSearch", user_context |-> u, cached |-> cached,
                depth |-> depth,
                rows |-> {Ret(id) : id \in
                            GraphExpand(initialResults, initialResults,
                                        initialResults, depth)}]
     /\ UNCHANGED <<nextId, relations, nextRelId, memoryCache, now, storeReq,
                    lastStore, relReq, lastRel, decayReq, cleanupReq,
                    embedJobs, redisKeys, isRedisAvailable, travReq, burst,
                    workerPool, batchReq, mergeReq, scheduler, clusterJobs, windowStates, windowReq, modelService>>

\* ------------------------------------------------- DecayWorker scheduling

\* before the worker is constructed: no repeatable job
NoSchedule == [started |-> FALSE, contexts |-> {}]

\* scheduleRecurringJobs, called once from the constructor: one repeatable
\* hourly job per user_context that has a non-deleted memory at that time
ScheduleRecurringJobs ==
  /\ ~scheduler.started
  /\ scheduler' = [started |-> TRUE, contexts |-> LiveContexts]
  /\ UNCHANGED <<memories, nextId, relations, nextRelId, searchCache,
                 memoryCache, now, storeReq, lastStore, relReq, lastRel,
                 decayReq, cleanupReq, out, embedJobs, redisKeys,
                 isRedisAvailable, travReq, burst, workerPool, batchReq,
                 mergeReq, clusterJobs, windowStates, windowReq, modelService>>

\* processDecay: a repeatable job of a scheduled context fires
ProcessDecay(w, ctx) ==
  /\ scheduler.started
  /\ ctx \in scheduler.contexts
  /\ ProcessBatchSelect(w, ctx)

\* ------------------------------------------------- clustering queue/worker

\* the operations of a clustering job (ClusteringJob.operation)
ClusteringOperations ==
  {"full-clustering", "incremental", "merge-clusters", "split-clusters"}

\* defaultJobOptions.attempts of the clustering queue
ClusteringAttempts == 2

\* jobs ever enqueued in one run
MaxClusterJobs == 3

NoClusterJobs == <<>>

\* the job data addClusteringJob puts on the queue: the caller's fields with
\* type set to 'clustering'
ClusteringJob(operation, memoryIds) ==
  [type |-> "clustering", operation |-> operation, memoryIds |-> memoryIds,
   pc |-> "waiting", attemptsMade |-> 0, handledAs |-> "none",
   failedReason |-> "none"]

addClusteringJob(operation, memoryIds) ==
  /\ Len(clusterJobs) < MaxClusterJobs
  /\ clusterJobs' = Append(clusterJobs, ClusteringJob(operation, memoryIds))
  /\ UNCHANGED <<memories, nextId, relations, nextRelId, searchCache,
                 memoryCache, now, storeReq, lastStore, relReq, lastRel,
                 decayReq, cleanupReq, out, embedJobs, redisKeys,
                 isRedisAvailable, travReq, burst, workerPool, batchReq,
                 mergeReq, scheduler, windowStates, windowReq, modelService>>

\* the switch of processClusteringJob over the type field of the job data
ClusteringSwitch(type, memoryIds) ==
  IF type = "full-clustering" THEN [handledAs |-> type, error |-> "none"]
  ELSE IF type = "incremental"
    THEN IF memoryIds = {}
           THEN [handledAs |-> "none", error |-> "Memory IDs required"]
           ELSE [handledAs |-> type, error |-> "none"]
  ELSE IF type = "merge-clusters" THEN [handledAs |-> type, error |-> "none"]
  ELSE IF type = "split-clusters" THEN [handledAs |-> type, error |-> "none"]
  ELSE [handledAs |-> "none", error |-> "Unknown clustering job type"]

\* processClusteringJob: one attempt of a waiting job; a throw is retried
\* until the attempts of the queue are used up
ProcessClusteringJob(j) ==
  /\ j \in 1..Len(clusterJobs)
  /\ clusterJobs[j].pc = "waiting"
  /\ LET job == clusterJobs[j]
         r == ClusteringSwitch(job.type, job.memoryIds)
     IN clusterJobs' = [clusterJobs EXCEPT ![j] =
          IF r.error = "none"
            THEN [type |-> job.type, operation |-> job.operation,
                  memoryIds |-> job.memoryIds, pc |-> "completed",
                  attemptsMade |-> job.attemptsMade + 1,
                  handledAs |-> r.handledAs, failedReason |-> "none"]
            ELSE [type |-> job.type, operation |-> job.operation,
                  memoryIds |-> job.memoryIds,
                  pc |-> IF job.attemptsMade + 1 < ClusteringAttempts
                           THEN "waiting" ELSE "failed",
                  attemptsMade |-> job.attemptsMade + 1,
                  handledAs |-> "none", failedReason |-> r.error]]
  /\ UNCHANGED <<memories, nextId, relations, nextRelId, searchCache,
                 memoryCache, now, storeReq, lastStore, relReq, lastRel,
                 decayReq, cleanupReq, out, embedJobs, redisKeys,
                 isRedisAvailable, travReq, burst, workerPool, batchReq,
                 mergeReq, scheduler, windowStates, windowReq, modelService>>

\* ---------------------------------------------------- ContextWindowService

\* config.maxWindowSize as configured for the runs checked here (the
\* constructor takes it from its config argument)
maxWindowSize == 2

\* MemoryScorer weights, thousandths (relevance has no similarity here)
recencyWeight == 300
importanceWeight == 300
accessWeight == 200

NoWindow == [exists |-> FALSE, activeMemories |-> <<>>]
IdleWindow == [pc |-> "idle", memoryId |-> NULL, queryIds |-> {}]

\* calculateRecencyScore: exp(-0.1 * ageInHours), thousandths; one tick is
\* 2400 hours, so any age of a tick or more gives 0
calculateRecencyScore(row) ==
  LET referenceTime == IF row.accessed_at # NULL THEN row.accessed_at
                       ELSE row.created_at
  IN IF now <= referenceTime THEN 1000 ELSE 0

\* calculateAccessScore: log(accessCount + 1) / log(totalMemories + 1),
\* clamped to [0, 1]
calculateAccessScore(accessCount, totalMemories) ==
  IF totalMemories = 0 THEN 0
  ELSE LET normalizedCount ==
             (Log1pMilli(accessCount) * 1000) \div Log1pMilli(totalMemories)
       IN Max(0, IF normalizedCount > 1000 THEN 1000 ELSE normalizedCount)

\* scoreMemory: totalScore of a stored row among totalMemories rows
scoreMemory(id, totalMemories) ==
  (recencyWeight * calculateRecencyScore(memories[id])
   + importanceWeight * memories[id].importance_score
   + accessWeight
       * calculateAccessScore(memories[id].access_count, totalMemories))
    \div 1000

\* scoreAndRankMemories: the rankings of the rows ids, best first; rows of
\* equal score come in the order the query returned them, which no ORDER BY
\* fixes
scoreAndRankMemories(ids) ==
  {scored \in [1..Cardinality(ids) -> ids] :
     /\ \A i, k \in 1..Cardinality(ids) : i # k => scored[i] # scored[k]
     /\ \A i, k \in 1..Cardinality(ids) :
          i < k => scoreMemory(scored[i], Cardinality(ids))
                     >= scoreMemory(scored[k], Cardinality(ids))}

\* activeMemories.splice(indexOf(id), 1): the first occurrence removed
RECURSIVE SpliceFirst(_, _)
SpliceFirst(seq, id) ==
  IF seq = <<>> THEN <<>>
  ELSE IF Head(seq) = id THEN Tail(seq)
  ELSE <<Head(seq)>> \o SpliceFirst(Tail(seq), id)

\* the SELECT of initializeWindow: the user's non-deleted rows, most
\* recently accessed first, at most maxWindowSize of them
RecentMemories(userId) ==
  LET live == {id \in DOMAIN memories :
                 /\ memories[id].user_context = userId
                 /\ memories[id].deleted_at = NULL}
      Accessed(id) == IF memories[id].accessed_at = NULL THEN 0 - 1
                      ELSE memories[id].accessed_at
  IN {S \in SUBSET live :
        /\ Cardinality(S) = IF Cardinality(live) < maxWindowSize
                              THEN Cardinality(live) ELSE maxWindowSize
        /\ \A a \in S, b \in live \ S : Accessed(a) >= Accessed(b)}

\* initializeWindow with populateWindow, for the first call of the user: the
\* recent rows pushed in ranking order until the window is full
InitializeWindow ==
  /\ ~windowStates.exists
  /\ \E S \in RecentMemories("default") :
       \E scored \in scoreAndRankMemories(S) :
         windowStates' =
           [exists |-> TRUE,
            activeMemories |->
              SubSeq(scored, 1, IF Len(scored) < maxWindowSize
                                  THEN Len(scored) ELSE maxWindowSize)]
  /\ UNCHANGED <<memories, nextId, relations, nextRelId, searchCache,
                 memoryCache, now, storeReq, lastStore, relReq, lastRel,
                 decayReq, cleanupReq, out, embedJobs, redisKeys,
                 isRedisAvailable, travReq, burst, workerPool, batchReq,
                 mergeReq, scheduler, clusterJobs, windowReq, modelService>>

\* addToWindow up to its first suspension after the row was read: a full
\* window issues the query of evictLowestScoring over the ids now in the
\* window and waits for it; otherwise the id is pushed at once
AddToWindow(p, memoryId) ==
  /\ windowStates.exists
  /\ windowReq[p].pc = "idle"
  /\ memoryId \in DOMAIN memories
  /\ memories[memoryId].access_count < MaxAccess
  /\ IF Len(windowStates.activeMemories) >= maxWindowSize
       THEN /\ windowReq' = [windowReq EXCEPT ![p] =
                 [pc |-> "evicting", memoryId |-> memoryId,
                  queryIds |-> {windowStates.activeMemories[i] :
                                  i \in 1..Len(windowStates.activeMemories)}]]
            /\ UNCHANGED windowStates
       ELSE /\ windowStates' =
                 [exists |-> TRUE,
                  activeMemories |->
                    Append(windowStates.activeMemories, memoryId)]
            /\ windowReq' = [windowReq EXCEPT ![p] =
                 [pc |-> "pushed", memoryId |-> memoryId, queryIds |-> {}]]
  /\ UNCHANGED <<memories, nextId, relations, nextRelId, searchCache,
                 memoryCache, now, storeReq, lastStore, relReq, lastRel,
                 decayReq, cleanupReq, out, embedJobs, redisKeys,
                 isRedisAvailable, travReq, burst, workerPool, batchReq,
                 mergeReq, scheduler, clusterJobs, modelService>>

\* evictLowestScoring resumes with the rows of its query: the last of the
\* ranking is spliced out if it is still in the window; addToWindow then
\* pushes the new id
EvictLowestScoring(p) ==
  /\ windowReq[p].pc = "evicting"
  /\ LET rows == windowReq[p].queryIds \cap DOMAIN memories
     IN \E scored \in scoreAndRankMemories(rows) :
          LET kept == IF Len(scored) > 0
                        THEN SpliceFirst(windowStates.activeMemories,
                                         scored[Len(scored)])
                        ELSE windowStates.activeMemories
          IN windowStates' =
               [exists |-> TRUE,
                activeMemories |-> Append(kept, windowReq[p].memoryId)]
  /\ windowReq' = [windowReq EXCEPT ![p].pc = "pushed", ![p].queryIds = {}]
  /\ UNCHANGED <<memories, nextId, relations, nextRelId, searchCache,
                 memoryCache, now, storeReq, lastStore, relReq, lastRel,
                 decayReq, cleanupReq, out, embedJobs, redisKeys,
                 isRedisAvailable, travReq, burst, workerPool, batchReq,
                 mergeReq, scheduler, clusterJobs, modelService>>

\* updateMemoryAccess, then addToWindow returns
UpdateMemoryAccess(p) ==
  /\ windowReq[p].pc = "pushed"
  /\ LET id == windowReq[p].memoryId
     IN memories' =
          IF id \in DOMAIN memories
            THEN [memories EXCEPT ![id].accessed_at = now,
                                  ![id].access_count = @ + 1]
            ELSE memories
  /\ windowReq' = [windowReq EXCEPT ![p] = IdleWindow]
  /\ UNCHANGED <<nextId, relations, nextRelId, searchCache,
                 memoryCache, now, storeReq, lastStore, relReq, lastRel,
                 decayReq, cleanupReq, out, embedJobs, redisKeys,
                 isRedisAvailable, travReq, burst, workerPool, batchReq,
                 mergeReq, scheduler, clusterJobs, windowStates, modelService>>

\* -------------------------------------------------------- EmbeddingService

\* concurrent callers of getModel
MaxCallers == 3
Callers == 1..MaxCallers

\* after construction: model = null, modelLoading = false, no call
NoModel ==
  [model |-> FALSE, modelLoading |-> FALSE, pc |-> [c \in Callers |-> "idle"]]

\* getModel up to its first suspension: a loaded model is returned; the
\* first caller of an unloaded model sets modelLoading and awaits
\* pipeline(); any other caller goes to the polling loop
GetModel(c) ==
  /\ modelService.pc[c] = "idle"
  /\ modelService' =
       IF modelService.model
         THEN [modelService EXCEPT !.pc[c] = "returned"]
       ELSE IF ~modelService.modelLoading
         THEN [modelService EXCEPT !.modelLoading = TRUE,
                                       !.pc[c] = "loading"]
       ELSE [modelService EXCEPT !.pc[c] = "polling"]
  /\ UNCHANGED <<memories, nextId, relations, nextRelId, searchCache,
                 memoryCache, now, storeReq, lastStore, relReq, lastRel,
                 decayReq, cleanupReq, out, embedJobs, redisKeys,
                 isRedisAvailable, travReq, burst, workerPool, batchReq,
                 mergeReq, scheduler, clusterJobs, windowStates, windowReq>>

\* the load of the loading caller settles: "loaded" sets the model, the
\* caller passes the while loop and returns; "mismatch" sets the model and
\* validateEmbeddingDimensions throws; "failed" is pipeline() rejecting. The
\* catch block resets modelLoading and throws
LoadSettles(c, outcome) ==
  /\ modelService.pc[c] = "loading"
  /\ modelService' =
       IF outcome = "loaded"
         THEN [modelService EXCEPT !.model = TRUE, !.pc[c] = "returned"]
       ELSE IF outcome = "mismatch"
         THEN [modelService EXCEPT !.model = TRUE,
                                       !.modelLoading = FALSE,
                                       !.pc[c] = "threw"]
       ELSE [modelService EXCEPT !.modelLoading = FALSE,
                                     !.pc[c] = "threw"]
  /\ UNCHANGED <<memories, nextId, relations, nextRelId, searchCache,
                 memoryCache, now, storeReq, lastStore, relReq, lastRel,
                 decayReq, cleanupReq, out, embedJobs, redisKeys,
                 isRedisAvailable, travReq, burst, workerPool, batchReq,
                 mergeReq, scheduler, clusterJobs, windowStates, windowReq>>

\* while (!this.model) await setTimeout(100): the timer of a polling caller
\* fires with the model set and the caller returns it ("polled": returned
\* out of the loop); with no model the caller sleeps again, which changes
\* nothing
PollModel(c) ==
  /\ modelService.pc[c] = "polling"
  /\ modelService.model
  /\ modelService' = [modelService EXCEPT !.pc[c] = "polled"]
  /\ UNCHANGED <<memories, nextId, relations, nextRelId, searchCache,
                 memoryCache, now, storeReq, lastStore, relReq, lastRel,
                 decayReq, cleanupReq, out, embedJobs, redisKeys,
                 isRedisAvailable, travReq, burst, workerPool, batchReq,
                 mergeReq, scheduler, clusterJobs, windowStates, windowReq>>

\* the caller has its model or its error and may call again later
GetModelDone(c) ==
  /\ modelService.pc[c] \in {"returned", "polled", "threw"}
  /\ modelService' = [modelService EXCEPT !.pc[c] = "idle"]
  /\ UNCHANGED <<memories, nextId, relations, nextRelId, searchCache,
                 memoryCache, now, storeReq, lastStore, relReq, lastRel,
                 decayReq, cleanupReq, out, embedJobs, redisKeys,
                 isRedisAvailable, travReq, burst, workerPool, batchReq,
                 mergeReq, scheduler, clusterJobs, windowStates, windowReq>>

\* ------------------------------------------------------- specifications
InitEmpty ==
  /\ memories = [i \in {} |-> NULL]
  /\ nextId = 1
  /\ relations = [i \in {} |-> NULL]
  /\ nextRelId = 1
  /\ searchCache = NoSearchCache
  /\ memoryCache = {}
  /\ now = 0
  /\ storeReq = [p \in Procs |-> IdleStore]
  /\ lastStore = NoStore
  /\ relReq = [p \in Procs |-> IdleRel]
  /\ lastRel = NoRel
  /\ decayReq = [w \in DecayWorkers |-> IdleDecay]
  /\ cleanupReq = IdleCleanup
  /\ embedJobs = NoJobs
  /\ modelService = NoModel
  /\ windowReq = [p \in Procs |-> IdleWindow]
  /\ windowStates = NoWindow
  /\ clusterJobs = NoClusterJobs
  /\ scheduler = NoSchedule
  /\ mergeReq = IdleMerge
  /\ batchReq = IdleBatch
  /\ workerPool = RunningPool
  /\ travReq = IdleTrav
  /\ burst = NoBurst
  /\ redisKeys = {}
  /\ isRedisAvailable = FALSE
  /\ out = NoOut

\* concurrent store requests only
NextStore ==
  \/ \E p \in Procs, u \in UserInputs, c \in Contents, sync \in BOOLEAN :
        StoreSelect(p, u, c, sync)
  \/ \E p \in Procs : StoreHit(p)
  \/ \E p \in Procs : StoreInsert(p)
  \/ \E p \in Procs : StoreEnqueue(p)

SpecStore == InitEmpty /\ [][NextStore]_vars

\* store requests interleaved with the soft deletes (delete, batch delete,
\* the archive step of a consolidation)
NextIngest ==
  \/ NextStore
  \/ \E id \in MemIds : DeleteById(id)
  \/ \E c \in Contents : DeleteByHash(c)
  \/ \E ids \in SUBSET MemIds : BatchDelete(ids)
  \/ \E ids \in SUBSET MemIds : ArchiveMemories(ids)

SpecIngest == InitEmpty /\ [][NextIngest]_vars

\* one client that issues its store calls one after the other
NextSeq ==
  \/ \E u \in UserInputs, c \in Contents, sync \in BOOLEAN : StoreSelect(1, u, c, sync)
  \/ StoreHit(1)
  \/ StoreInsert(1)
  \/ StoreEnqueue(1)
  \/ StoreReturn(1)

SpecSeq == InitEmpty /\ [][NextSeq]_vars

\* the fixture of the relation tests: two memories of one user, no edges
InitRel ==
  /\ memories = (1 :> RowAt(0, "default", generateContentHash("x"), TRUE, {}))
                 @@ (2 :> RowAt(0, "default", generateContentHash("y"), TRUE, {}))
  /\ nextId = 3
  /\ relations = [i \in {} |-> NULL]
  /\ nextRelId = 1
  /\ searchCache = NoSearchCache
  /\ memoryCache = {}
  /\ now = 0
  /\ storeReq = [p \in Procs |-> IdleStore]
  /\ lastStore = NoStore
  /\ relReq = [p \in Procs |-> IdleRel]
  /\ lastRel = NoRel
  /\ decayReq = [w \in DecayWorkers |-> IdleDecay]
  /\ cleanupReq = IdleCleanup
  /\ embedJobs = NoJobs
  /\ modelService = NoModel
  /\ windowReq = [p \in Procs |-> IdleWindow]
  /\ windowStates = NoWindow
  /\ clusterJobs = NoClusterJobs
  /\ scheduler = NoSchedule
  /\ mergeReq = IdleMerge
  /\ batchReq = IdleBatch
  /\ workerPool = RunningPool
  /\ travReq = IdleTrav
  /\ burst = NoBurst
  /\ redisKeys = {}
  /\ isRedisAvailable = FALSE
  /\ out = NoOut

RelInputs == {1, 2}

\* concurrent createRelation requests
NextRel ==
  \/ \E p \in Procs, from \in RelInputs, to \in RelInputs,
        type \in RelationTypes, strength \in Strengths :
        RelValidate(p, from, to, type, strength)
  \/ \E p \in Procs : RelSelectExisting(p)
  \/ \E p \in Procs : RelUpdate(p)
  \/ \E p \in Procs : RelInsert(p)

SpecRel == InitRel /\ [][NextRel]_vars

\* one client that issues its createRelation calls one after the other
NextRelSeq ==
  \/ \E from \in RelInputs, to \in RelInputs,
        type \in RelationTypes, strength \in Strengths :
        RelValidate(1, from, to, type, strength)
  \/ RelSelectExisting(1)
  \/ RelUpdate(1)
  \/ RelInsert(1)
  \/ RelReturn(1)

SpecRelSeq == InitRel /\ [][NextRelSeq]_vars

\* search, list, traverse and clustering over stored memories of two
\* contexts: 1 -> 2 inside "default", 2 -> 3 across to "u1"
SeedIds == {1, 2, 3}

InitQuery ==
  /\ memories = (1 :> RowAt(0, "default", generateContentHash("x"), TRUE, {}))
             @@ (2 :> RowAt(0, "default", generateContentHash("y"), TRUE, {}))
             @@ (3 :> RowAt(0, "u1", generateContentHash("x"), TRUE, {}))
  /\ nextId = 4
  /\ relations = (1 :> [from_memory_id |-> 1, to_memory_id |-> 2,
                        relation_type |-> "references", strength |-> 500])
              @@ (2 :> [from_memory_id |-> 2, to_memory_id |-> 3,
                        relation_type |-> "supports", strength |-> 500])
  /\ nextRelId = 3
  /\ searchCache = NoSearchCache
  /\ memoryCache = {}
  /\ now = 0
  /\ storeReq = [p \in Procs |-> IdleStore]
  /\ lastStore = NoStore
  /\ relReq = [p \in Procs |-> IdleRel]
  /\ lastRel = NoRel
  /\ decayReq = [w \in DecayWorkers |-> IdleDecay]
  /\ cleanupReq = IdleCleanup
  /\ embedJobs = NoJobs
  /\ modelService = NoModel
  /\ windowReq = [p \in Procs |-> IdleWindow]
  /\ windowStates = NoWindow
  /\ clusterJobs = NoClusterJobs
  /\ scheduler = NoSchedule
  /\ mergeReq = IdleMerge
  /\ batchReq = IdleBatch
  /\ workerPool = RunningPool
  /\ travReq = IdleTrav
  /\ burst = NoBurst
  /\ redisKeys = {}
  /\ isRedisAvailable = FALSE
  /\ out = NoOut

\* the traverse handler passes user_context on as given: "" (none given)
\* matches no row
TraverseContexts == {"", "default", "u1"}

NextQuery ==
  \/ \E u \in UserInputs, q \in Queries : SearchCached(u, q)
  \/ \E u \in UserInputs, q \in Queries : SearchMiss(u, q)
  \/ \E u \in UserInputs : List(u)
  \/ \E u \in TraverseContexts, start \in SeedIds, d \in MaxDepths :
        Traverse(u, start, d)
  \/ \E id \in SeedIds : DeleteById(id)
  \/ \E c \in Contents : DeleteByHash(c)
  \/ \E ids \in SUBSET SeedIds : ClusterNewMemories(ids)
  \/ \E u \in UserInputs : Consolidate(u)

SpecQuery == InitQuery /\ [][NextQuery]_vars

\* the decay worker, preserveMemory and update on memory 1 of "default",
\* stored with (importance_score, confidence) = (1, 0.9) or (0.5, 0.1);
\* memory 2 of "u1" is there to be the other end of an edge
DecaySeeds == {1}
SeedScores == {<<1000, 900>>, <<500, 100>>}
SeedEdges ==
  {[i \in {} |-> NULL],
   (1 :> [from_memory_id |-> 1, to_memory_id |-> 2,
          relation_type |-> "references", strength |-> 500])}

InitScored(scores) ==
  /\ \E sc \in scores :
       memories =
         (1 :> [RowAt(0, "default", generateContentHash("x"), TRUE, {})
                  EXCEPT !.importance_score = sc[1], !.confidence = sc[2]])
         @@ (2 :> RowAt(0, "u1", generateContentHash("y"), TRUE, {}))
  /\ nextId = 3
  /\ relations \in SeedEdges
  /\ nextRelId = 2
  /\ searchCache = NoSearchCache
  /\ memoryCache = {}
  /\ now = 0
  /\ storeReq = [p \in Procs |-> IdleStore]
  /\ lastStore = NoStore
  /\ relReq = [p \in Procs |-> IdleRel]
  /\ lastRel = NoRel
  /\ decayReq = [w \in DecayWorkers |-> IdleDecay]
  /\ cleanupReq = IdleCleanup
  /\ embedJobs = NoJobs
  /\ modelService = NoModel
  /\ windowReq = [p \in Procs |-> IdleWindow]
  /\ windowStates = NoWindow
  /\ clusterJobs = NoClusterJobs
  /\ scheduler = NoSchedule
  /\ mergeReq = IdleMerge
  /\ batchReq = IdleBatch
  /\ workerPool = RunningPool
  /\ travReq = IdleTrav
  /\ burst = NoBurst
  /\ redisKeys = {}
  /\ isRedisAvailable = FALSE
  /\ out = NoOut

InitDecay == InitScored(SeedScores)

\* until: none, a date one tick after the start, a date after the end
Untils == {NULL, 1, MaxTime + 1}

\* DECAY_WORKER_CONCURRENCY = 1: one decay job at a time
OneDecayWorker == {1}

NextDecay ==
  \/ \E w \in OneDecayWorker : ProcessBatchSelect(w, "default")
  \/ \E w \in OneDecayWorker, id \in DecaySeeds : UpdateMemoryDecayRead(w, id)
  \/ \E w \in OneDecayWorker : UpdateMemoryDecayWrite(w)
  \/ \E w \in OneDecayWorker : HandleStateTransition(w)
  \/ \E w \in OneDecayWorker : HandleSpecificTransition(w)
  \/ \E id \in DecaySeeds, until \in Untils : PreserveMemory(id, until)
  \/ \E id \in DecaySeeds, tags \in TagInputs : Update(id, tags)
  \/ Tick

SpecDecay == InitDecay /\ [][NextDecay]_vars

\* retention: the decay worker, delete, archiveMemories and the periodic
\* cleanup; every step that stays enabled is taken eventually
NextRetention ==
  \/ \E w \in DecayWorkers : ProcessBatchSelect(w, "default")
  \/ \E w \in DecayWorkers, id \in DecaySeeds : UpdateMemoryDecayRead(w, id)
  \/ \E w \in DecayWorkers : UpdateMemoryDecayWrite(w)
  \/ \E w \in DecayWorkers : HandleStateTransition(w)
  \/ \E w \in DecayWorkers : HandleSpecificTransition(w)
  \/ \E id \in DecaySeeds : DeleteById(id)
  \/ \E id \in DecaySeeds : ArchiveMemories({id})
  \/ Tick
  \/ CleanupSelect
  \/ CleanupDeleteEdges
  \/ CleanupDeleteMemories

\* store({confidence: 0.05}): expired at the first decay pass
RetentionScores == {<<500, 50>>}

InitRetention == InitScored(RetentionScores)

SpecRetention == InitRetention /\ [][NextRetention]_vars

FairRetention ==
  /\ WF_vars(Tick)
  /\ WF_vars(CleanupSelect)
  /\ WF_vars(CleanupDeleteEdges)
  /\ WF_vars(CleanupDeleteMemories)
  /\ \A w \in DecayWorkers :
       /\ WF_vars(ProcessBatchSelect(w, "default"))
       /\ WF_vars(\E id \in DecaySeeds : UpdateMemoryDecayRead(w, id))
       /\ WF_vars(UpdateMemoryDecayWrite(w))
       /\ WF_vars(HandleStateTransition(w))
       /\ WF_vars(HandleSpecificTransition(w))

SpecRetentionFair == SpecRetention /\ FairRetention

\* two decay jobs at a time (the default concurrency) over the same context,
\* with statements that may fail
TransitionScores == SeedScores \cup RetentionScores

InitTransition == InitScored(TransitionScores)

NextTransition ==
  \/ \E w \in DecayWorkers : ProcessBatchSelect(w, "default")
  \/ \E w \in DecayWorkers, id \in DecaySeeds : UpdateMemoryDecayRead(w, id)
  \/ \E w \in DecayWorkers : UpdateMemoryDecayWrite(w)
  \/ \E w \in DecayWorkers : HandleStateTransition(w)
  \/ \E w \in DecayWorkers : HandleSpecificTransition(w)
  \/ \E w \in DecayWorkers : DecayStatementFails(w)
  \/ \E w \in DecayWorkers : DecayCatch(w)
  \/ Tick

SpecTransition == InitTransition /\ [][NextTransition]_vars

\* the retention cleanup beside one decay job over memory 1 and a client
\* that relates memory 1 to memory 2
NextCleanup ==
  \/ \E w \in OneDecayWorker : ProcessBatchSelect(w, "default")
  \/ \E w \in OneDecayWorker, id \in DecaySeeds : UpdateMemoryDecayRead(w, id)
  \/ \E w \in OneDecayWorker : UpdateMemoryDecayWrite(w)
  \/ \E w \in OneDecayWorker : HandleStateTransition(w)
  \/ \E w \in OneDecayWorker : HandleSpecificTransition(w)
  \/ \E strength \in Strengths : RelValidate(1, 1, 2, "references", strength)
  \/ RelSelectExisting(1)
  \/ RelUpdate(1)
  \/ RelInsert(1)
  \/ RelReturn(1)
  \/ Tick
  \/ CleanupSelect
  \/ CleanupDeleteEdges
  \/ CleanupDeleteMemories

SpecCleanup == InitRetention /\ [][NextCleanup]_vars

\* store requests of the clients of one user together with the embedding
\* worker
NextEmbed ==
  \/ \E p \in Procs, c \in Contents, sync \in BOOLEAN :
        StoreSelect(p, "u1", c, sync)
  \/ \E p \in Procs : StoreHit(p)
  \/ \E p \in Procs : StoreInsert(p)
  \/ \E p \in Procs : StoreEnqueue(p)
  \/ \E j \in MemIds : EmbedStart(j)
  \/ \E j \in MemIds : EmbedGenerate(j)
  \/ \E j \in MemIds : EmbedStore(j)
  \/ \E j \in MemIds, error \in EmbedErrors : EmbedCatch(j, error)

SpecEmbed == InitEmpty /\ [][NextEmbed]_vars

\* a cache service with REDIS_URL configured and connected
InitCache ==
  /\ memories = [i \in {} |-> NULL]
  /\ nextId = 1
  /\ relations = [i \in {} |-> NULL]
  /\ nextRelId = 1
  /\ searchCache = NoSearchCache
  /\ memoryCache = {}
  /\ now = 0
  /\ storeReq = [p \in Procs |-> IdleStore]
  /\ lastStore = NoStore
  /\ relReq = [p \in Procs |-> IdleRel]
  /\ lastRel = NoRel
  /\ decayReq = [w \in DecayWorkers |-> IdleDecay]
  /\ cleanupReq = IdleCleanup
  /\ embedJobs = NoJobs
  /\ modelService = NoModel
  /\ windowReq = [p \in Procs |-> IdleWindow]
  /\ windowStates = NoWindow
  /\ clusterJobs = NoClusterJobs
  /\ scheduler = NoSchedule
  /\ mergeReq = IdleMerge
  /\ batchReq = IdleBatch
  /\ workerPool = RunningPool
  /\ travReq = IdleTrav
  /\ burst = NoBurst
  /\ redisKeys = {}
  /\ isRedisAvailable = TRUE
  /\ out = NoOut

NextCache ==
  \/ \E id \in MemIds : CacheMemory(id)
  \/ \E k \in SearchKeys : CacheSearchResult(k)
  \/ \E id \in MemIds : InvalidateMemory(id)
  \/ RedisError
  \/ RedisConnect

SpecCache == InitCache /\ [][NextCache]_vars

\* a graph to traverse: memories 1..4 of 'default' with edges 1->2, 1->3,
\* 3->4, and memory 5 of 'u1' with an edge 5->1 into the graph of 'default'
TravSeeds == 1..5

InitGraph ==
  /\ memories = [id \in TravSeeds |->
                   RowAt(0, IF id = 5 THEN "u1" ELSE "default",
                         generateContentHash(<<"m", id>>), TRUE, {})]
  /\ nextId = 6
  /\ relations = (1 :> [from_memory_id |-> 1, to_memory_id |-> 2,
                        relation_type |-> "references", strength |-> 500])
              @@ (2 :> [from_memory_id |-> 1, to_memory_id |-> 3,
                        relation_type |-> "references", strength |-> 500])
              @@ (3 :> [from_memory_id |-> 3, to_memory_id |-> 4,
                        relation_type |-> "supports", strength |-> 500])
              @@ (4 :> [from_memory_id |-> 5, to_memory_id |-> 1,
                        relation_type |-> "references", strength |-> 500])
  /\ nextRelId = 5
  /\ searchCache = NoSearchCache
  /\ memoryCache = {}
  /\ now = 0
  /\ storeReq = [p \in Procs |-> IdleStore]
  /\ lastStore = NoStore
  /\ relReq = [p \in Procs |-> IdleRel]
  /\ lastRel = NoRel
  /\ decayReq = [w \in DecayWorkers |-> IdleDecay]
  /\ cleanupReq = IdleCleanup
  /\ embedJobs = NoJobs
  /\ modelService = NoModel
  /\ windowReq = [p \in Procs |-> IdleWindow]
  /\ windowStates = NoWindow
  /\ clusterJobs = NoClusterJobs
  /\ scheduler = NoSchedule
  /\ mergeReq = IdleMerge
  /\ batchReq = IdleBatch
  /\ workerPool = RunningPool
  /\ travReq = IdleTrav
  /\ burst = NoBurst
  /\ redisKeys = {}
  /\ isRedisAvailable = FALSE
  /\ out = NoOut

\* start ids of the requests: memories of either user and an id of no row
TravStarts == {1, 3, 5, 6}

\* the memories that a concurrent delete request removes meanwhile
TravDeletes == {2, 3}

NextTraverse ==
  \/ \E u \in {"default", "u1"}, start \in TravStarts,
        algorithm \in TravAlgorithms, maxDepth \in MaxDepths,
        maxNodes \in MaxNodesInputs, timeoutMs \in TimeoutInputs :
        TraverseStart(u, start, algorithm, maxDepth, maxNodes, timeoutMs, {})
  \/ TravNext
  \/ TravFetch
  \/ TravExpand
  \/ TravReturn
  \/ TravClock
  \/ \E id \in TravDeletes : DeleteById(id)

SpecTraverse == InitGraph /\ [][NextTraverse]_vars

\* a client of 'default' firing traverse calls without waiting
NextBurst ==
  \E start \in SeedIds, maxDepth \in MaxDepths :
     BurstRequest("default", start, maxDepth)

SpecBurst == InitQuery /\ [][NextBurst]_vars

\* the worker process from start to shutdown
NextPool ==
  \/ \E w \in PoolWorkers : PoolJobStart(w)
  \/ \E w \in PoolWorkers : PoolJobFinish(w)
  \/ PoolSignal
  \/ \E w \in PoolWorkers : PoolWorkerClosed(w)
  \/ \E w \in PoolWorkers : PoolConnectionQuit(w)

SpecPool == InitEmpty /\ [][NextPool]_vars

\* a table in which content 'x' of 'default' was stored and then deleted
InitBatch ==
  /\ memories = (1 :> [RowAt(0, "default", generateContentHash("x"), FALSE, {})
                         EXCEPT !.deleted_at = 0])
  /\ nextId = 2
  /\ relations = [i \in {} |-> NULL]
  /\ nextRelId = 1
  /\ searchCache = NoSearchCache
  /\ memoryCache = {}
  /\ now = 0
  /\ storeReq = [p \in Procs |-> IdleStore]
  /\ lastStore = NoStore
  /\ relReq = [p \in Procs |-> IdleRel]
  /\ lastRel = NoRel
  /\ decayReq = [w \in DecayWorkers |-> IdleDecay]
  /\ cleanupReq = IdleCleanup
  /\ embedJobs = NoJobs
  /\ modelService = NoModel
  /\ windowReq = [p \in Procs |-> IdleWindow]
  /\ windowStates = NoWindow
  /\ clusterJobs = NoClusterJobs
  /\ scheduler = NoSchedule
  /\ mergeReq = IdleMerge
  /\ batchReq = IdleBatch
  /\ workerPool = RunningPool
  /\ travReq = IdleTrav
  /\ burst = NoBurst
  /\ redisKeys = {}
  /\ isRedisAvailable = FALSE
  /\ out = NoOut

\* one batchStore call or one batch-import job
NextBatch ==
  \/ \E items \in BatchInputs, u \in UserInputs : BatchStoreStart(items, u)
  \/ BatchStoreCall
  \/ BatchStoreSettle
  \/ \E items \in BatchInputs : ImportStart(items)
  \/ \E p \in Procs : ImportCall(p)
  \/ ImportSettle
  \/ BatchReturn
  \/ \E p \in Procs : StoreHit(p)
  \/ \E p \in Procs : StoreInsert(p)
  \/ \E p \in Procs : StoreEnqueue(p)

SpecBatch == InitBatch /\ [][NextBatch]_vars

\* the ids a merge job is given: stored memories and an id of no row
MergeIds == {1, 2, 3}

\* one merge job, with deletes and time going on beside it
NextMerge ==
  \/ \E ids \in SUBSET MergeIds : MergeFetch(ids)
  \/ MergeCreate
  \/ MergeArchive
  \/ \E id \in {1, 2} : DeleteById(id)
  \/ Tick

SpecMerge == InitRel /\ [][NextMerge]_vars

\* one asynchronous store into the empty table and the embedding worker,
\* with the job delivered more than once
NextRedeliver ==
  \/ \E u \in UserInputs, c \in Contents : StoreSelect(1, u, c, FALSE)
  \/ StoreInsert(1)
  \/ StoreEnqueue(1)
  \/ \E j \in MemIds : EmbedStart(j)
  \/ \E j \in MemIds : EmbedGenerate(j)
  \/ \E j \in MemIds : EmbedStore(j)
  \/ \E j \in MemIds : EmbedStalled(j)

SpecRedeliver == InitEmpty /\ [][NextRedeliver]_vars

\* traversals from memory 1 with and without a tags filter, while update
\* requests set the tags of the memories
FilterTags == {{}, {"important"}}
FilterUpdates == {1, 3, 4}

NextFilter ==
  \/ \E algorithm \in TravAlgorithms, maxDepth \in MaxDepths, tags \in FilterTags :
        TraverseStart("default", 1, algorithm, maxDepth, 1000, 5000, tags)
  \/ TravNext
  \/ TravFetch
  \/ TravExpand
  \/ TravReturn
  \/ \E id \in FilterUpdates, tags \in TagInputs : Update(id, tags)

SpecFilter == InitGraph /\ [][NextFilter]_vars

\* createRelation requests of one client beside delete requests
NextRelDelete ==
  \/ \E from \in RelInputs, to \in RelInputs, type \in RelationTypes :
        RelValidate(1, from, to, type, 500)
  \/ RelSelectExisting(1)
  \/ RelUpdate(1)
  \/ RelInsert(1)
  \/ RelReturn(1)
  \/ \E id \in RelInputs : DeleteById(id)

SpecRelDelete == InitRel /\ [][NextRelDelete]_vars

\* graph searches of either user over the seeded memories, beside deletes
NextGraph ==
  \/ \E u \in UserInputs, q \in Queries, depth \in GraphDepths :
        GraphSearch(u, q, depth)
  \/ \E id \in SeedIds : DeleteById(id)

SpecGraph == InitQuery /\ [][NextGraph]_vars

\* the decay worker is started at some time; each client stores one memory,
\* before or after, and the repeatable jobs fire as time passes
NextSchedule ==
  \/ \E p \in Procs, u \in UserInputs : StoreSelect(p, u, "x", TRUE)
  \/ \E p \in Procs : StoreInsert(p)
  \/ DeleteById(1)
  \/ ScheduleRecurringJobs
  \/ \E w \in OneDecayWorker, ctx \in {"default", "u1"} : ProcessDecay(w, ctx)
  \/ \E w \in OneDecayWorker, id \in MemIds : UpdateMemoryDecayRead(w, id)
  \/ \E w \in OneDecayWorker : UpdateMemoryDecayWrite(w)
  \/ \E w \in OneDecayWorker : HandleStateTransition(w)
  \/ \E w \in OneDecayWorker : HandleSpecificTransition(w)
  \/ Tick

SpecSchedule == InitEmpty /\ [][NextSchedule]_vars

\* the queue service enqueues clustering jobs, the clustering worker
\* processes them
ClusterIdSets == {{}, {1}}

NextClustering ==
  \/ \E operation \in ClusteringOperations, memoryIds \in ClusterIdSets :
       addClusteringJob(operation, memoryIds)
  \/ \E j \in 1..MaxClusterJobs : ProcessClusteringJob(j)

SpecClustering == InitEmpty /\ [][NextClustering]_vars

\* concurrent addToWindow calls on the window of 'default'
WindowCallers == {1, 2}
WindowAdds == {1, 3}

NextWindow ==
  \/ InitializeWindow
  \/ \E p \in WindowCallers, memoryId \in WindowAdds :
       AddToWindow(p, memoryId)
  \/ \E p \in WindowCallers : EvictLowestScoring(p)
  \/ \E p \in WindowCallers : UpdateMemoryAccess(p)

SpecWindow == InitQuery /\ [][NextWindow]_vars

\* the embedding worker runs (autorun): a waiting job is taken and a run
\* that meets no error goes on to its end; errors are not bound to stop
FairEmbed ==
  \A j \in MemIds :
    /\ WF_vars(EmbedStart(j))
    /\ WF_vars(EmbedGenerate(j))
    /\ WF_vars(EmbedStore(j))

SpecEmbedFair == SpecEmbed /\ FairEmbed

\* one client that stores and deletes by id, one call after the other
NextSeqDelete ==
  \/ \E u \in {"default", "u1"} : StoreSelect(1, u, "x", TRUE)
  \/ StoreHit(1)
  \/ StoreInsert(1)
  \/ StoreReturn(1)
  \/ \E id \in MemIds : storeReq[1].pc = "idle" /\ DeleteById(id)

SpecSeqDelete == InitEmpty /\ [][NextSeqDelete]_vars

\* batch-import jobs queued by batchImport for one of two users
NextImport ==
  \/ \E items \in BatchInputs, userContext \in {"default", "u1"} :
       BatchImport(items, userContext)
  \/ \E p \in Procs : ImportCall(p)
  \/ ImportSettle
  \/ BatchReturn
  \/ \E p \in Procs : StoreHit(p)
  \/ \E p \in Procs : StoreInsert(p)
  \/ \E p \in Procs : StoreEnqueue(p)

SpecImport == InitBatch /\ [][NextImport]_vars

\* one merge job over its attempts, with deletes beside it
NextMergeRetry ==
  \/ \E ids \in SUBSET MergeIds : MergeFetch(ids)
  \/ MergeCreate
  \/ MergeArchive
  \/ MergeAttemptFails
  \/ MergeRetry
  \/ \E id \in {1, 2} : DeleteById(id)
  \/ Tick

SpecMergeRetry == InitRel /\ [][NextMergeRetry]_vars

\* concurrent getModel calls on one EmbeddingService
LoadOutcomes == {"loaded", "mismatch", "failed"}

NextModel ==
  \/ \E c \in Callers : GetModel(c)
  \/ \E c \in Callers, outcome \in LoadOutcomes : LoadSettles(c, outcome)
  \/ \E c \in Callers : PollModel(c)
  \/ \E c \in Callers : GetModelDone(c)

SpecModel == InitEmpty /\ [][NextModel]_vars

\* the promise of pipeline() settles and the timers of the polling loop
\* fire; nothing obliges anyone to call getModel again
FairModel ==
  \A c \in Callers :
    /\ WF_vars(\E outcome \in LoadOutcomes : LoadSettles(c, outcome))
    /\ WF_vars(PollModel(c))

SpecModelFair == SpecModel /\ FairModel

\* =============================================================== claims
SamePair(a, b) ==
  a.user_context = b.user_context /\ a.content_hash = b.content_hash

Completed(p) == storeReq[p].pc \in {"done", "failed"}

\* C1: concurrent store requests of the same (user_context, content) collapse
\* to one row, every request but the inserting one resolves as a dedup hit
\* on that row, and none of them fails.
C1_ConcurrentStoresCollapse ==
  \A p, q \in Procs :
     (p # q /\ Completed(p) /\ Completed(q) /\ SamePair(storeReq[p], storeReq[q]))
       => /\ storeReq[p].pc = "done"
          /\ storeReq[q].pc = "done"
          /\ storeReq[p].id = storeReq[q].id
          /\ (storeReq[p].hit \/ storeReq[q].hit)

\* C5: for each (user_context, content_hash) at most one row has
\* deleted_at null, in every reachable state.
C5_AtMostOneLivePerPair ==
  \A i, j \in DOMAIN memories :
     (Live(i) /\ Live(j) /\ SamePair(memories[i], memories[j])) => i = j

\* a second insert of a pair was attempted and rejected while the pair's
\* row is live
C5_Witness ==
  \E p \in Procs : \E id \in DOMAIN memories :
     /\ storeReq[p].pc = "failed"
     /\ Live(id)
     /\ SamePair(memories[id], storeReq[p])

\* C6: store(x); store(x) by one client in sequence returns the same id
\* twice, and the second call raises access_count by exactly 1.
C6_StoreTwiceSameId ==
  (Completed(1) /\ lastStore.op = "store" /\ SamePair(lastStore, storeReq[1]))
    => /\ storeReq[1].pc = "done"
       /\ storeReq[1].id = lastStore.id
       /\ storeReq[1].access_count = lastStore.access_count + 1

C6_Witness ==
  /\ storeReq[1].pc = "done"
  /\ lastStore.op = "store"
  /\ SamePair(lastStore, storeReq[1])
  /\ storeReq[1].hit

RelCompleted(p) == relReq[p].pc \in {"done", "failed"}

SameEdge(a, b) == a.from = b.from /\ a.to = b.to

\* C2: concurrent createRelation calls on one (from, to) pair all succeed
\* and leave a single edge row for the pair.
C2_ConcurrentRelationsSucceed ==
  \A p, q \in Procs :
     (p # q /\ RelCompleted(p) /\ RelCompleted(q) /\ SameEdge(relReq[p], relReq[q]))
       => /\ relReq[p].pc = "done"
          /\ relReq[q].pc = "done"
          /\ Cardinality(EdgesOf(relReq[p].from, relReq[p].to)) = 1

\* C7: createRelation(a,b,t,s); createRelation(a,b,t',s') leaves exactly one
\* edge row for (a,b), with the id the first call created, carrying (t',s').
C7_SecondCallUpdatesSameRow ==
  (RelCompleted(1) /\ lastRel.op = "relate" /\ SameEdge(lastRel, relReq[1]))
    => /\ relReq[1].pc = "done"
       /\ relReq[1].id = lastRel.id
       /\ EdgesOf(lastRel.from, lastRel.to) = {lastRel.id}
       /\ relations[lastRel.id].relation_type = relReq[1].relation_type
       /\ relations[lastRel.id].strength = relReq[1].strength

C7_Witness ==
  /\ relReq[1].pc = "done"
  /\ lastRel.op = "relate"
  /\ SameEdge(lastRel, relReq[1])
  /\ relReq[1].id = lastRel.id

\* C3: a memory whose deleted_at is set is never among the rows that a
\* search, list or traversal returns, nor among the rows that clustering
\* processes
C3_DeletedInvisible ==
  out.op \in {"search", "list", "traverse", "cluster"}
    => \A r \in out.rows : ~r.deleted

\* C4: every row returned by search, list or traverse carries the
\* user_context of the request ("default" when the request gives none)
C4_RowsOfRequestContext ==
  out.op \in {"search", "list", "traverse"}
    => \A r \in out.rows : r.user_context = EffectiveContext(out.user_context)

\* a traversal returned a memory that has an edge to a live memory of
\* another user_context
C4_Witness ==
  /\ out.op = "traverse"
  /\ \E r \in out.rows, e \in DOMAIN relations, m \in DOMAIN memories :
       /\ relations[e].from_memory_id = r.id
       /\ relations[e].to_memory_id = m
       /\ memories[m].deleted_at = NULL
       /\ memories[m].user_context # r.user_context

\* C8: every memory whose preservation is active (a preservation tag, and
\* metadata.preservedUntil absent or in the future) has decay_score >= 0.95
\* and state active
C8_PreservedStaysActive ==
  \A id \in DOMAIN memories :
    (/\ memories[id].tags \cap preservationTags # {}
     /\ memories[id].preservedUntil # NULL => memories[id].preservedUntil > now)
      => memories[id].decay_score >= 950 /\ memories[id].state = "active"

\* C9: when preserveMemory(id) has returned, the memory has decay_score 1.0,
\* state active, last_decay_update at the time of the call and the tag
\* 'preserved', whether or not it carried the tag before
C9_PreserveResets ==
  out.op = "preserve"
    => /\ out.row.decay_score = 1000
       /\ out.row.state = "active"
       /\ out.row.last_decay_update = out.at
       /\ "preserved" \in out.row.tags

C11_SoftDeletedEventuallyPurged ==
  \A id \in DecaySeeds :
    (/\ id \in DOMAIN memories
     /\ memories[id].deleted_at # NULL
     /\ memories[id].deleted_at < now) ~> (id \notin DOMAIN memories)

\* C12: in every reachable state a memory's embedding_dimension is set if and
\* only if its embedding is present, whether the embedding was written by a
\* synchronous store or by the embedding worker.
C12_DimensionIffEmbedding ==
  \A id \in DOMAIN memories :
     (memories[id].embedding_dimension # NULL) <=> memories[id].embedding

C14_RoutedByClass ==
  \A j \in DOMAIN embedJobs :
     LET job == embedJobs[j] IN
     /\ job.error \in {"network", "rate-limit", "timeout"}
           => job.routed = "retry"
     /\ job.error \in {"model", "dimension"}
           => /\ job.routed = "flag"
              /\ job.pc = "completed"
              /\ job.memoryId \in DOMAIN memories
                    => memories[job.memoryId].embeddingError

\* C15: from the completion of invalidateMemory(id) until the next set, a get
\* returns neither the memory entry of id nor any key of the search
\* namespace, whichever tier answers.
C15_InvalidatedIsGone ==
  out.op = "invalidate"
     => /\ ~CacheGet("memory", out.id)
        /\ \A k \in SearchKeys : ~CacheGet("search", k)

\* C16: every delete call that soft-deletes a memory, by id or by
\* content_hash, leaves the cache without the entry of that memory and with
\* an empty search namespace.
C16_DeleteInvalidates ==
  [][ ((\E id \in MemIds : DeleteById(id)) \/ (\E c \in Contents : DeleteByHash(c)))
        => \A id \in DOMAIN memories :
              (memories[id].deleted_at = NULL /\ memories'[id].deleted_at # NULL)
                 => (id \notin memoryCache' /\ searchCache' = NoSearchCache) ]_vars

\* C17: the result of a BFS traversal is in non-decreasing depth order: each
\* entry's depth is at least the depth of the entry before it.
C17_BfsDepthNonDecreasing ==
  (travReq.pc # "idle" /\ travReq.algorithm = "bfs")
     => \A i \in 1..(Len(travReq.result) - 1) :
           travReq.result[i + 1].depth >= travReq.result[i].depth

C17_Witness ==
  /\ travReq.pc = "done"
  /\ travReq.algorithm = "bfs"
  /\ Len(travReq.result) = 4
  /\ travReq.result[1].depth = 0
  /\ travReq.result[3].depth = 1
  /\ travReq.result[4].depth = 2

\* C18: a traversal whose start memory does not exist or is of another
\* user_context than the request's completes with an empty result, also when
\* the start memory has edges to memories of the requesting user_context.
C18_ForeignStartEmpty ==
  (/\ travReq.pc = "done"
   /\ \/ travReq.start \notin DOMAIN memories
      \/ memories[travReq.start].user_context # travReq.user_context)
     => travReq.result = <<>>

C18_Witness ==
  /\ travReq.pc = "done"
  /\ ~travReq.timedOut
  /\ travReq.start \in DOMAIN memories
  /\ memories[travReq.start].deleted_at = NULL
  /\ memories[travReq.start].user_context # travReq.user_context
  /\ \E r \in DOMAIN relations :
        /\ relations[r].from_memory_id = travReq.start
        /\ Live(relations[r].to_memory_id)
        /\ memories[relations[r].to_memory_id].user_context = travReq.user_context
  /\ travReq.result = <<>>

\* C19 (as stated): once the elapsed time exceeds timeoutMs the traversal
\* adds no node to its result and expands no node.
C19_NoExpansionAfterTimeout ==
  [][ (/\ travReq.pc \in {"loop", "fetch", "expand"}
       /\ travReq.elapsed > travReq.timeoutMs
       /\ travReq'.pc # "idle")
        => /\ travReq'.result = travReq.result
           /\ Len(travReq'.queue) <= Len(travReq.queue) ]_vars

\* C19 (amended): the timeout is looked at at the head of each loop
\* iteration: a traversal that is there with the elapsed time above
\* timeoutMs starts no further iteration and is done with the nodes
\* collected so far.
C19_TimeoutStopsLoop ==
  [][ (/\ travReq.pc = "loop"
       /\ travReq.elapsed > travReq.timeoutMs
       /\ travReq' # travReq
       /\ travReq'.elapsed = travReq.elapsed)
        => /\ travReq'.pc = "done"
           /\ travReq'.result = travReq.result ]_vars

C19_Witness ==
  /\ travReq.pc = "done"
  /\ travReq.timedOut
  /\ travReq.elapsed > travReq.timeoutMs
  /\ travReq.result # <<>>
  /\ travReq.queue # <<>>

\* C20: a client that has issued a burst of BurstRequests traverse calls for
\* one user_context has had at least one of them rejected.
C20_BurstRejected ==
  burst.issued = BurstRequests => burst.rejected > 0

\* C21: the shared connection is quit only after the workers have closed:
\* while it is quit no worker is still closing or has a job in flight.
C21_QuitAfterAllClosed ==
  workerPool.connection = "end"
     => \A w \in PoolWorkers :
           /\ workerPool.workers[w].state \in {"closed", "stopped"}
           /\ workerPool.workers[w].active = 0

C23_MergeNeedsTwo ==
  /\ (mergeReq.pc # "idle" /\ mergeReq.live < 2) => mergeReq.pc = "failed"
  /\ mergeReq.pc = "failed"
        => /\ mergeReq.mergedId = NULL
           /\ \A id \in DOMAIN memories :
                 /\ ~memories[id].archived
                 /\ memories[id].content_hash[2] \in Contents

C23_Witness ==
  /\ mergeReq.pc = "failed"
  /\ mergeReq.memoryIds = {1, 2}
  /\ mergeReq.live = 1

\* C24: once a decay update of a memory has ended, normally or by a failed
\* statement, the memory is not left with state expired and deleted_at null
C24_ExpiredIsDeleted ==
  \A id \in DOMAIN memories :
    (\A w \in DecayWorkers :
        decayReq[w].pc \in {"read", "written", "logged", "failed"} => decayReq[w].id # id)
      => ~(memories[id].state = "expired" /\ memories[id].deleted_at = NULL)

\* C27: the step that ends a decay update which moved an uncompressed memory
\* into state archived leaves the stored row compressed
C27_ArchivedIsCompressed ==
  [][\A w \in DecayWorkers :
       (/\ decayReq[w].pc = "logged"
        /\ decayReq'[w].pc \in {"idle", "batch"}
        /\ decayReq[w].newState = "archived"
        /\ ~decayReq[w].is_compressed
        /\ decayReq[w].id \in DOMAIN memories')
       => memories'[decayReq[w].id].is_compressed]_vars

\* C28: no step loses a state change recorded in a memory's
\* metadata.transitions: the {from, to} of the entries recorded before the
\* step are a prefix of those after it
C28_NoTransitionLost ==
  [][\A id \in DOMAIN memories \cap DOMAIN memories' :
       LET before == memories[id].transitions
           after  == memories'[id].transitions
       IN /\ Len(before) <= Len(after)
          /\ \A i \in 1..Len(before) :
                /\ after[i].from = before[i].from
                /\ after[i].to = before[i].to]_vars

\* C25: no state shows the edges of the memories selected by the retention
\* cleanup deleted while those memories are still stored
C25_CleanupAtomic ==
  ~(/\ cleanupReq.pc = "edges"
    /\ cleanupReq.deletedEdges > 0
    /\ \E id \in cleanupReq.ids : id \in DOMAIN memories)

\* C26: the embedding of a memory is written once: no run of an embedding job
\* stores an embedding into a row that already has one
C26_EmbeddingWrittenOnce ==
  [][\A j \in DOMAIN embedJobs :
       (/\ embedJobs[j].pc = "generated"
        /\ embedJobs'[j].pc = "completed"
        /\ embedJobs'[j].routed # "flag"
        /\ embedJobs[j].memoryId \in DOMAIN memories)
       => ~memories[embedJobs[j].memoryId].embedding]_vars


\* C29 as stated: when getMemory is answered for a node that fails the tags
\* filter and whose depth is below maxDepth, its connections are gathered
C29_FilteredNodeExpanded ==
  [][(/\ travReq.pc = "fetch"
      /\ travReq'.pc # "fetch"
      /\ getMemory(travReq.current.id, travReq.user_context)
      /\ travReq.tags # {}
      /\ memories[travReq.current.id].tags \cap travReq.tags = {}
      /\ travReq.current.depth < travReq.maxDepth)
     => /\ travReq'.result = travReq.result
        /\ travReq'.pc = "expand"]_vars

\* C29, amended: when getMemory is answered for a node that fails the tags
\* filter, the node is left out of the result and the traversal goes back to
\* the head of the loop: its connections are not gathered and nothing is
\* enqueued
C29_FilteredNodePruned ==
  [][(/\ travReq.pc = "fetch"
      /\ travReq'.pc # "fetch"
      /\ getMemory(travReq.current.id, travReq.user_context)
      /\ travReq.tags # {}
      /\ memories[travReq.current.id].tags \cap travReq.tags = {})
     => /\ travReq'.result = travReq.result
        /\ travReq'.queue = travReq.queue
        /\ travReq'.pc = "loop"]_vars

\* a finished traversal that visited memory 3, which fails the filter, and
\* returned memory 1 but not memory 4, which passes the filter and is
\* connected through memory 3 only
C29_Witness ==
  /\ travReq.pc = "done"
  /\ travReq.tags = {"important"}
  /\ travReq.maxDepth = 3
  /\ 3 \in travReq.visited
  /\ memories[3].tags = {}
  /\ memories[4].tags = {"important"}
  /\ \E i \in 1..Len(travReq.result) : travReq.result[i].id = 1
  /\ \A i \in 1..Len(travReq.result) : travReq.result[i].id # 4

\* C30: every step that inserts or updates an edge finds both endpoint
\* memories of the edge stored and not soft-deleted
C30_EdgeWrittenOntoLive ==
  [][\A r \in DOMAIN relations' :
       (r \notin DOMAIN relations \/ relations'[r] # relations[r])
         => /\ Live(relations'[r].from_memory_id)
            /\ Live(relations'[r].to_memory_id)]_vars

\* C31: every memory a graphSearch returns, seed or added by the expansion,
\* belongs to the user_context of the request
C31_GraphSearchOwnContext ==
  out.op = "graphSearch"
    => \A r \in out.rows : r.user_context = EffectiveContext(out.user_context)

\* C32: once the decay worker has scheduled its jobs, every user_context
\* that holds a non-deleted memory has a repeatable decay job
C32_EveryContextScheduled ==
  scheduler.started => LiveContexts \subseteq scheduler.contexts

\* C33: every clustering job enqueued through the queue service with one of
\* the four operations is handled by the worker as that operation: no attempt
\* rejects it as an unknown job type, and a job that was processed and did
\* not fail for another reason was handled as its operation.
C33_OperationHandled ==
  \A j \in 1..Len(clusterJobs) :
    (clusterJobs[j].operation \in ClusteringOperations
       /\ clusterJobs[j].attemptsMade > 0)
      => /\ clusterJobs[j].failedReason # "Unknown clustering job type"
         /\ (clusterJobs[j].failedReason = "none"
               => clusterJobs[j].handledAs = clusterJobs[j].operation)

\* C34: the number of active memories in the user's context window never
\* exceeds maxWindowSize, whatever the sequence and interleaving of
\* addToWindow calls.
C34_WindowWithinSize ==
  Len(windowStates.activeMemories) <= maxWindowSize

\* C35: every memory stored in async mode eventually shows a terminal
\* embedding outcome on its row: once its embedding job is on the queue, the
\* row eventually has an embedding or carries embeddingError.
C35_EmbeddingOutcomeVisible ==
  \A j \in MemIds :
    (j \in DOMAIN embedJobs)
      ~> (/\ j \in DOMAIN embedJobs
          /\ embedJobs[j].memoryId \in DOMAIN memories
          /\ \/ memories[embedJobs[j].memoryId].embedding
             \/ memories[embedJobs[j].memoryId].embeddingError)

\* C36: after a memory with content x was soft-deleted, a later store(x) by
\* the same user_context succeeds: no store fails on a (user_context,
\* content_hash) pair whose only rows are soft-deleted.
C36_StoreAfterSoftDelete ==
  storeReq[1].pc = "failed"
    => \E id \in DOMAIN memories :
         /\ memories[id].user_context = storeReq[1].user_context
         /\ memories[id].content_hash = storeReq[1].content_hash
         /\ memories[id].deleted_at = NULL

\* C37: a delete by content_hash soft-deletes only the requesting tenant's
\* memory: the rows of one content_hash that a single delete step
\* soft-deletes all belong to one user_context (delete takes no
\* user_context, so rows of two contexts deleted together include a row that
\* is not the requester's).
C37_DeleteByHashOneTenant ==
  [][\A a, b \in DOMAIN memories :
       (/\ memories[a].deleted_at = NULL /\ memories'[a].deleted_at # NULL
        /\ memories[b].deleted_at = NULL /\ memories'[b].deleted_at # NULL
        /\ memories[a].content_hash = memories[b].content_hash)
         => memories[a].user_context = memories[b].user_context]_vars

\* C38: every memory created by a batch-import job is stored under the
\* user_context given to batchImport when the job was queued (the userId of
\* the job).
C38_ImportedUnderJobUser ==
  (batchReq.pc = "run" /\ batchReq.kind = "import")
    => \A p \in Procs :
         storeReq[p].pc = "inserted"
           => memories[storeReq[p].id].user_context
                = EffectiveContext(batchReq.user_context)

\* C39: a merge job produces at most one merged memory for its originals
\* over all of its attempts: an attempt that failed after the merged memory
\* was created is not followed by a second merged memory.
C39_OneMergedMemory ==
  mergeReq.pc # "idle" => Cardinality(mergeReq.merged) <= 1

\* C40: every call to getModel terminates: a caller that loads the model or
\* waits for it eventually returns the model or throws.
C40_GetModelTerminates ==
  \A c \in Callers :
    (modelService.pc[c] \in {"loading", "polling"})
      ~> (modelService.pc[c] \in {"returned", "polled", "threw"})

====
